---- MODULE Spec2Model ----
(***************************************************************************)
(* Verification model of the opencode PTY multiplexer (namespace Pty), of   *)
(* the Ollama adapter (OllamaChatModel.doStream and doGenerate), of the   *)
(* build of the provider registry (Provider state), of Provider.getModel,  *)
(* getLanguage and getSDK, of the model ids of the amazon-bedrock loader,  *)
(* of the MCP credential store with the logout command, and of the        *)
(* select-session route of the server, of Provider.defaultModel, of the    *)
(* model discovery of the ollama loader, and of the writes of mcp add and  *)
(* mcp import into a config file.                                          *)
(*                                                                         *)
(* Strings.  A JavaScript string that holds child output is modelled as a  *)
(* sequence of runs [lo |-> a, hi |-> b]: the code units number a..b of    *)
(* everything the child has written so far.  Every unit the child writes   *)
(* has its own number, so omission, duplication and reordering are all     *)
(* visible, and the real sizes (2 MiB, 64 KiB) can be kept.                *)
(***************************************************************************)
EXTENDS Integers, Sequences, FiniteSets, TLC

\* ------------------------------------------------------------------ bounds
MaxSessions == 1
MaxWs == 2
MaxChunks == 2
MaxStdin == 1
MaxCalls == 3
MaxReads == 2
MaxAtoms == 2
MaxTasks == 3
MaxLookups == 1
MaxListed == 2
MaxItems == 2

\* ------------------------------------------------------- program constants
BUFFER_LIMIT == 1024 * 1024 * 2
BUFFER_CHUNK == 64 * 1024

\* ------------------------------------------------------------ string model
Run(a, b) == [lo |-> a, hi |-> b]

\* the units a+1 .. b of the child's output ("" when a >= b)
Units(a, b) == IF a < b THEN <<Run(a + 1, b)>> ELSE <<>>

RECURSIVE StrLen(_)
StrLen(s) == IF s = <<>> THEN 0 ELSE (Head(s).hi - Head(s).lo + 1) + StrLen(Tail(s))

\* s + t
Concat(s, t) ==
    IF s = <<>> THEN t
    ELSE IF t = <<>> THEN s
    ELSE IF s[Len(s)].hi + 1 = t[1].lo
         THEN SubSeq(s, 1, Len(s) - 1) \o <<Run(s[Len(s)].lo, t[1].hi)>> \o Tail(t)
         ELSE s \o t

\* s.slice(n) for 0 <= n
RECURSIVE DropUnits(_, _)
DropUnits(s, n) ==
    IF n <= 0 \/ s = <<>> THEN s
    ELSE LET l == Head(s).hi - Head(s).lo + 1 IN
         IF n >= l THEN DropUnits(Tail(s), n - l)
         ELSE <<Run(Head(s).lo + n, Head(s).hi)>> \o Tail(s)

\* s.slice(0, n) for 0 <= n
RECURSIVE TakeUnits(_, _)
TakeUnits(s, n) ==
    IF n <= 0 \/ s = <<>> THEN <<>>
    ELSE LET l == Head(s).hi - Head(s).lo + 1 IN
         IF n >= l THEN Concat(<<Head(s)>>, TakeUnits(Tail(s), n - l))
         ELSE <<Run(Head(s).lo, Head(s).lo + n - 1)>>

\* s.slice(i, j) for 0 <= i <= j
Slice(s, i, j) == TakeUnits(DropUnits(s, i), j - i)

\* s.slice(-n) for n > 0: the trailing n units, the whole string when shorter
SliceLast(s, n) == IF StrLen(s) <= n THEN s ELSE DropUnits(s, StrLen(s) - n)

\* ---------------------------------------------------------------- the state
VARIABLES
    table,      \* Pty state(): the ids that are keys of the session map
    sess,       \* the ActiveSession objects ever created, by id (closures keep them)
    proc,       \* the pty child of each session
    ws,         \* the WSContext sinks
    bus,        \* the events published on the Bus, in order
    last,       \* the call or callback that ran last, with its outcome
    calls,      \* how many calls of the Pty functions were made
    opts,       \* doStream: what the call was made with
    pc,         \* doStream: where the start(controller) of the stream is
    st,         \* doStream: the local variables of start(controller)
    parts,      \* doStream: what controller.enqueue was given, in order
    err,        \* what the call threw or its stream was errored with, if anything
    gen,        \* doGenerate: what the call returned, if it did
    inputs,     \* Provider state: what the build reads (config, env, auth, ...)
    database,   \* Provider state: the catalog of providers, by id
    providers,  \* Provider state: the providers of the registry, by id
    stage,      \* Provider state: the stage of the build that runs next
    state,      \* Provider: what state() resolves to (providers, models, sdk)
    task,       \* Provider: the calls of getModel and getLanguage, in call order
    made,       \* Provider: the drivers and handles constructed, in order
    fuzzy,      \* fuzzysort: how each query scores against each target
    bedrock,    \* amazon-bedrock getModel: what it is called with, what it resolves
    mcpAuth,    \* the credential store: the record of each server name
    authLast,   \* the credential store: the operation that ran last
    tui,        \* the server: its sessions and its answer to select-session
    dflt,       \* Provider.defaultModel: what it reads and what it returns or throws
    loader,     \* CUSTOM_LOADERS.ollama: what it reads and the models it leaves
    file        \* the config file of mcp add and mcp import, and the write last tried

ptyVars == <<table, sess, proc, ws, bus, last, calls>>
streamVars == <<opts, pc, st, parts, err, gen>>
regVars == <<inputs, database, providers, stage>>
langVars == <<state, task, made, fuzzy>>
bedrockVars == <<bedrock>>
authVars == <<mcpAuth, authLast>>
tuiVars == <<tui>>
cfgVars == <<dflt, loader, file>>
vars == <<table, sess, proc, ws, bus, last, calls, opts, pc, st, parts, err, gen,
          inputs, database, providers, stage, state, task, made, fuzzy,
          bedrock, mcpAuth, authLast, tui, dflt, loader, file>>

\* what each part of the model leaves alone
notPty == <<streamVars, regVars, langVars, bedrockVars, authVars, tuiVars, cfgVars>>
notStream == <<ptyVars, regVars, langVars, bedrockVars, authVars, tuiVars, cfgVars>>
notReg == <<ptyVars, streamVars, langVars, bedrockVars, authVars, tuiVars, cfgVars>>
notLang == <<ptyVars, streamVars, regVars, bedrockVars, authVars, tuiVars, cfgVars>>
notBedrock == <<ptyVars, streamVars, regVars, langVars, authVars, tuiVars, cfgVars>>
notAuth == <<ptyVars, streamVars, regVars, langVars, bedrockVars, tuiVars, cfgVars>>
notTui == <<ptyVars, streamVars, regVars, langVars, bedrockVars, authVars, cfgVars>>
notCfg == <<ptyVars, streamVars, regVars, langVars, bedrockVars, authVars, tuiVars>>

Undefined == "undefined"

\* An optional value is None when absent and Some(v) when it is v.
None == <<>>
Some(v) == <<v>>

WS == 1..MaxWs
Ids == 1..MaxSessions
\* ids a caller may pass: the ids of sessions and one that is never created
AnyId == 0..MaxSessions
Listeners == {"cb"}

\* Shell.preferred() and Instance.directory of the running instance
PreferredShell == "/bin/zsh"
InstanceDirectory == "/a"

Commands == {Undefined, "pwsh"}
Cwds == {Undefined, "/b"}
Titles == {Undefined}
\* options.directory of connect
Directories == {Undefined, " ", "/a", " /b "}
\* sizes of the chunks the child writes
DataSizes == {1, BUFFER_LIMIT}
ExitCodes == {0, 1}
\* which send of the backlog loop throws (0: none)
FailAts == {0, 1, 2}

\* String.prototype.trim on the directories above
Trim(d) == CASE d = " " -> "" [] d = " /b " -> "/b" [] OTHER -> d

\* command.endsWith("sh")
EndsWithSh(c) == c \in {"/bin/zsh", "/bin/bash", "sh", "pwsh"}

\* JavaScript truthiness of an optional string
Truthy(v) == v # Undefined /\ v # ""

Created == 1..Len(sess)

\* last: the function or callback, the id and sink it was given, whether
\* state().get(id) found a session, and what it returned
NoCall == [op |-> "init", id |-> 0, w |-> 0, found |-> FALSE, ret |-> Undefined]
Call(op, id, w, found, ret) == [op |-> op, id |-> id, w |-> w, found |-> found, ret |-> ret]

\* Bus.publish(def, properties)
Publish(b, type, properties) == Append(b, [type |-> type, properties |-> properties])

\* Pty.list
List == {sess[i].info : i \in table}

\* Pty.get
Get(id) == IF id \in table THEN Some(sess[id].info) ELSE None

\* ws.send(data) on a sink: an open socket takes the data, any other drops it
Send(sink, data) == IF sink.ready THEN [sink EXCEPT !.recv = Concat(@, data)] ELSE sink

\* ws.close()
Close(sink) == [sink EXCEPT !.ready = FALSE, !.closes = @ + 1]

\* process.kill()
Kill(p) == [p EXCEPT !.kills = @ + 1]

\* process.write(data)
ProcWrite(p, data) == [p EXCEPT !.stdin = Append(@, data)]

\* process.resize(cols, rows)
ProcResize(p, cols, rows) == [p EXCEPT !.size = <<cols, rows>>]

\* In a sink, base and from record the session's buffer and the amount of
\* child output at the moment Pty.connect was called with the sink.
PtyInit ==
    /\ table = {}
    /\ sess = <<>>
    /\ proc = <<>>
    /\ ws = [w \in WS |-> [ready |-> TRUE, used |-> FALSE, sess |-> 0, handlers |-> FALSE,
                           closes |-> 0, closed |-> FALSE,
                           recv |-> <<>>, base |-> <<>>, from |-> 0]]
    /\ bus = <<>>
    /\ last = NoCall
    /\ calls = 0

\* Pty.create
Create(command, cwd, title) ==
    /\ LET id == Len(sess) + 1
           cmd == IF Truthy(command) THEN command ELSE PreferredShell
           args == IF EndsWithSh(cmd) THEN <<"-l">> ELSE <<>>
           dir == IF Truthy(cwd) THEN cwd ELSE InstanceDirectory
           info == [id |-> id,
                    title |-> IF Truthy(title) THEN title ELSE "Terminal",
                    command |-> cmd, args |-> args, cwd |-> dir,
                    status |-> "running", pid |-> id]
           session == [info |-> info, buffer |-> <<>>, subscribers |-> {},
                       listeners |-> {}, cwdPinned |-> Truthy(cwd)]
       IN /\ sess' = Append(sess, session)
          /\ proc' = Append(proc, [exited |-> FALSE, exitCode |-> 0, kills |-> 0,
                                   stdin |-> <<>>, size |-> <<0, 0>>, out |-> 0,
                                   chunks |-> 0])
          /\ table' = table \cup {id}
          /\ bus' = Publish(bus, "pty.created", [info |-> info])
          /\ last' = Call("create", id, 0, TRUE, "info")
    /\ UNCHANGED ws

\* AppendData that never cuts the buffer
AppendData_NoSlice(buffer, data) == Concat(buffer, data)

\* AppendData that cuts with slice(0, BUFFER_LIMIT)
AppendData_KeepOldest(buffer, data) ==
    LET appended == Concat(buffer, data)
    IN IF StrLen(appended) <= BUFFER_LIMIT THEN appended
       ELSE TakeUnits(appended, BUFFER_LIMIT)

\* onData, when no subscriber is open: the chunk goes to the buffer
AppendData(buffer, data) ==
    LET appended == Concat(buffer, data)
    IN IF StrLen(appended) <= BUFFER_LIMIT THEN appended
       ELSE SliceLast(appended, BUFFER_LIMIT)

\* OnData with the chunk appended to the buffer whether or not it was sent
OnData_AlwaysBuffers(id, n) ==
    /\ id \in Created
    /\ ~proc[id].exited
    /\ LET session == sess[id]
           data == Units(proc[id].out, proc[id].out + n)
           live == {w \in session.subscribers : ws[w].ready}
       IN /\ ws' = [w \in WS |-> IF w \in live THEN Send(ws[w], data) ELSE ws[w]]
          /\ sess' = [sess EXCEPT ![id].subscribers = live,
                                  ![id].buffer = AppendData(@, data)]
          /\ proc' = [proc EXCEPT ![id].out = @ + n, ![id].chunks = @ + 1]
          /\ last' = Call("onData", id, 0, TRUE, Undefined)
    /\ UNCHANGED <<table, bus>>

\* ptyProcess.onData: the child wrote the next n units.  The listeners are
\* called with the chunk first; what they do is outside the session.
OnData(id, n) ==
    /\ id \in Created
    /\ ~proc[id].exited
    /\ LET session == sess[id]
           data == Units(proc[id].out, proc[id].out + n)
           live == {w \in session.subscribers : ws[w].ready}
           open == live # {}
       IN /\ ws' = [w \in WS |-> IF w \in live THEN Send(ws[w], data) ELSE ws[w]]
          /\ sess' = [sess EXCEPT ![id].subscribers = live,
                                  ![id].buffer = IF open THEN @ ELSE AppendData(@, data)]
          /\ proc' = [proc EXCEPT ![id].out = @ + n, ![id].chunks = @ + 1]
          /\ last' = Call("onData", id, 0, TRUE, Undefined)
    /\ UNCHANGED <<table, bus>>

\* OnExit without state().delete(id)
OnExit_KeepsEntry(id, exitCode) ==
    /\ id \in Created
    /\ ~proc[id].exited
    /\ proc' = [proc EXCEPT ![id].exited = TRUE, ![id].exitCode = exitCode]
    /\ sess' = [sess EXCEPT ![id].info.status = "exited"]
    /\ bus' = Publish(bus, "pty.exited", [id |-> id, exitCode |-> exitCode])
    /\ last' = Call("onExit", id, 0, TRUE, Undefined)
    /\ UNCHANGED <<ws, table>>

\* ptyProcess.onExit: the child ended with exitCode
OnExit(id, exitCode) ==
    /\ id \in Created
    /\ ~proc[id].exited
    /\ proc' = [proc EXCEPT ![id].exited = TRUE, ![id].exitCode = exitCode]
    /\ sess' = [sess EXCEPT ![id].info.status = "exited"]
    /\ bus' = Publish(bus, "pty.exited", [id |-> id, exitCode |-> exitCode])
    /\ table' = table \ {id}
    /\ last' = Call("onExit", id, 0, TRUE, Undefined)
    /\ UNCHANGED ws

\* Pty.update
Update(id, title, size) ==
    IF id \notin table
    THEN /\ last' = Call("update", id, 0, FALSE, Undefined)
         /\ UNCHANGED <<table, sess, proc, ws, bus>>
    ELSE LET info == IF Truthy(title) THEN [sess[id].info EXCEPT !.title = title]
                     ELSE sess[id].info
         IN /\ sess' = [sess EXCEPT ![id].info = info]
            /\ proc' = IF size # None
                       THEN [proc EXCEPT ![id] = ProcResize(@, size[1][1], size[1][2])]
                       ELSE proc
            /\ bus' = Publish(bus, "pty.updated", [info |-> info])
            /\ last' = Call("update", id, 0, TRUE, "info")
            /\ UNCHANGED <<table, ws>>

\* Remove without the return for an id that is not in the table
Remove_NoLookup(id) ==
    /\ proc' = [i \in Created |-> IF i = id THEN Kill(proc[i]) ELSE proc[i]]
    /\ ws' = [w \in WS |->
                IF \E i \in Created : i = id /\ w \in sess[i].subscribers
                THEN Close(ws[w]) ELSE ws[w]]
    /\ table' = table \ {id}
    /\ bus' = Publish(bus, "pty.deleted", [id |-> id])
    /\ last' = Call("remove", id, 0, id \in table, Undefined)
    /\ UNCHANGED sess

\* Pty.remove
Remove(id) ==
    IF id \notin table
    THEN /\ last' = Call("remove", id, 0, FALSE, Undefined)
         /\ UNCHANGED <<table, sess, proc, ws, bus>>
    ELSE /\ proc' = [proc EXCEPT ![id] = Kill(@)]
         /\ ws' = [w \in WS |-> IF w \in sess[id].subscribers THEN Close(ws[w]) ELSE ws[w]]
         /\ table' = table \ {id}
         /\ bus' = Publish(bus, "pty.deleted", [id |-> id])
         /\ last' = Call("remove", id, 0, TRUE, Undefined)
         /\ UNCHANGED sess

\* Pty.resize
Resize(id, cols, rows) ==
    /\ proc' = IF id \in table /\ sess[id].info.status = "running"
               THEN [proc EXCEPT ![id] = ProcResize(@, cols, rows)]
               ELSE proc
    /\ last' = Call("resize", id, 0, id \in table, Undefined)
    /\ UNCHANGED <<table, sess, ws, bus>>

\* Write that keeps to a session object after it left the table
Write_StaleSession(id, data) ==
    /\ proc' = IF id \in Created
               THEN [proc EXCEPT ![id] = ProcWrite(@, data)]
               ELSE proc
    /\ last' = Call("write", id, 0, id \in table, Undefined)
    /\ UNCHANGED <<table, sess, ws, bus>>

\* Pty.write
Write(id, data) ==
    /\ proc' = IF id \in table /\ sess[id].info.status = "running"
               THEN [proc EXCEPT ![id] = ProcWrite(@, data)]
               ELSE proc
    /\ last' = Call("write", id, 0, id \in table, Undefined)
    /\ UNCHANGED <<table, sess, ws, bus>>

\* Pty.listen
Listen(id, listener) ==
    /\ IF id \notin table \/ sess[id].info.status # "running"
       THEN /\ last' = Call("listen", id, 0, id \in table, Undefined)
            /\ UNCHANGED sess
       ELSE /\ sess' = [sess EXCEPT ![id].listeners = @ \cup {listener}]
            /\ last' = Call("listen", id, 0, TRUE, "unlisten")
    /\ UNCHANGED <<table, proc, ws, bus>>

\* the function Pty.listen returned
Unlisten(id, listener) ==
    /\ id \in Created
    /\ listener \in sess[id].listeners
    /\ sess' = [sess EXCEPT ![id].listeners = @ \ {listener}]
    /\ last' = Call("unlisten", id, 0, TRUE, Undefined)
    /\ UNCHANGED <<table, proc, ws, bus>>

\* detectShellKind
detectShellKind(shellPath) ==
    IF shellPath \in {"pwsh", "powershell.exe"} THEN "powershell"
    ELSE IF shellPath \in {"cmd.exe", "/cmd"} THEN "cmd"
    ELSE "posix"

\* buildCwdCommand: the text of the command, as its parts
buildCwdCommand(shell, cwd) ==
    IF shell = "cmd" THEN <<"cd /d ", cwd, "\r\n">>
    ELSE IF shell = "powershell" THEN <<"Set-Location -LiteralPath ", cwd, "\r\n">>
    ELSE <<"cd -- ", cwd, "\r">>

\* the backlog loop of Pty.connect from offset i on; send number failAt throws
\* Flush that sends one unit less than BUFFER_CHUNK each time
RECURSIVE Flush_ShortChunk(_, _, _, _, _)
Flush_ShortChunk(sink, buffer, i, k, failAt) ==
    IF i >= StrLen(buffer) THEN [sink |-> sink, ok |-> TRUE]
    ELSE IF k = failAt THEN [sink |-> sink, ok |-> FALSE]
    ELSE Flush_ShortChunk(Send(sink, Slice(buffer, i, i + BUFFER_CHUNK - 1)), buffer,
                          i + BUFFER_CHUNK, k + 1, failAt)

RECURSIVE Flush(_, _, _, _, _)
Flush(sink, buffer, i, k, failAt) ==
    IF i >= StrLen(buffer) THEN [sink |-> sink, ok |-> TRUE]
    ELSE IF k = failAt THEN [sink |-> sink, ok |-> FALSE]
    ELSE Flush(Send(sink, Slice(buffer, i, i + BUFFER_CHUNK)), buffer,
               i + BUFFER_CHUNK, k + 1, failAt)

\* PinCwd that moves the session whenever it pins it
PinCwd_MovesAlways(session, directory) ==
    LET dir == IF directory = Undefined THEN Undefined ELSE Trim(directory)
        pin == Truthy(dir) /\ ~session.cwdPinned
    IN [cwdPinned |-> session.cwdPinned \/ pin,
        info |-> IF pin THEN [session.info EXCEPT !.cwd = dir] ELSE session.info,
        move |-> pin]

\* PinCwd that assigns cwdPinned from the directory alone
PinCwd_Unpins(session, directory) ==
    LET dir == IF directory = Undefined THEN Undefined ELSE Trim(directory)
        pin == Truthy(dir) /\ ~session.cwdPinned
        move == pin /\ dir # session.info.cwd
    IN [cwdPinned |-> pin,
        info |-> IF move THEN [session.info EXCEPT !.cwd = dir] ELSE session.info,
        move |-> move]

\* Pty.connect, the directory option: the session's cwdPinned and info after
\* it, and whether the cwd moved (an event is published, a command written)
PinCwd(session, directory) ==
    LET dir == IF directory = Undefined THEN Undefined ELSE Trim(directory)
        pin == Truthy(dir) /\ ~session.cwdPinned
        move == pin /\ dir # session.info.cwd
    IN [cwdPinned |-> session.cwdPinned \/ pin,
        info |-> IF move THEN [session.info EXCEPT !.cwd = dir] ELSE session.info,
        move |-> move]

\* Replay without session.buffer = buffer in the catch
Replay_DropsOnFailure(sessionBuffer, sink, failAt) ==
    IF sessionBuffer = <<>> THEN [buffer |-> <<>>, sink |-> sink, ok |-> TRUE]
    ELSE LET buffer == IF StrLen(sessionBuffer) <= BUFFER_LIMIT THEN sessionBuffer
                       ELSE SliceLast(sessionBuffer, BUFFER_LIMIT)
             sent == Flush(sink, buffer, 0, 1, failAt)
         IN IF sent.ok THEN [buffer |-> <<>>, sink |-> sent.sink, ok |-> TRUE]
            ELSE [buffer |-> <<>>, sink |-> Close(sent.sink), ok |-> FALSE]

\* Replay without session.buffer = ""
Replay_KeepsBuffer(sessionBuffer, sink, failAt) ==
    IF sessionBuffer = <<>> THEN [buffer |-> <<>>, sink |-> sink, ok |-> TRUE]
    ELSE LET buffer == IF StrLen(sessionBuffer) <= BUFFER_LIMIT THEN sessionBuffer
                       ELSE SliceLast(sessionBuffer, BUFFER_LIMIT)
             sent == Flush(sink, buffer, 0, 1, failAt)
         IN IF sent.ok THEN [buffer |-> buffer, sink |-> sent.sink, ok |-> TRUE]
            ELSE [buffer |-> buffer, sink |-> Close(sent.sink), ok |-> FALSE]

\* Pty.connect, the backlog: the session's buffer and the sink after it, and
\* whether every send went through
Replay(sessionBuffer, sink, failAt) ==
    IF sessionBuffer = <<>> THEN [buffer |-> <<>>, sink |-> sink, ok |-> TRUE]
    ELSE LET buffer == IF StrLen(sessionBuffer) <= BUFFER_LIMIT THEN sessionBuffer
                       ELSE SliceLast(sessionBuffer, BUFFER_LIMIT)
             sent == Flush(sink, buffer, 0, 1, failAt)
         IN IF sent.ok THEN [buffer |-> <<>>, sink |-> sent.sink, ok |-> TRUE]
            ELSE [buffer |-> buffer, sink |-> Close(sent.sink), ok |-> FALSE]

\* Pty.connect
Connect(id, w, directory, failAt) ==
    IF id \notin table
    THEN /\ ws' = [ws EXCEPT ![w] = [Close(@) EXCEPT !.used = TRUE]]
         /\ last' = [op |-> "connect", id |-> id, w |-> w, found |-> FALSE,
                      ret |-> Undefined, directory |-> directory]
         /\ UNCHANGED <<table, sess, proc, bus>>
    ELSE LET session == sess[id]
             pinned == PinCwd(session, directory)
             sink == [ws[w] EXCEPT !.used = TRUE, !.sess = id,
                                   !.base = session.buffer, !.from = proc[id].out]
             replayed == Replay(session.buffer, sink, failAt)
         IN /\ bus' = IF pinned.move
                      THEN Publish(bus, "pty.updated", [info |-> pinned.info])
                      ELSE bus
            /\ proc' = IF pinned.move
                       THEN [proc EXCEPT ![id] = ProcWrite(@,
                                 buildCwdCommand(detectShellKind(pinned.info.command),
                                                 pinned.info.cwd))]
                       ELSE proc
            /\ sess' = [sess EXCEPT ![id] =
                          [@ EXCEPT !.info = pinned.info, !.cwdPinned = pinned.cwdPinned,
                                    !.subscribers = IF replayed.ok THEN @ \cup {w}
                                                    ELSE @ \ {w},
                                    !.buffer = replayed.buffer]]
            /\ ws' = [ws EXCEPT ![w] = [replayed.sink EXCEPT !.handlers = replayed.ok]]
            /\ last' = [op |-> "connect", id |-> id, w |-> w, found |-> TRUE,
                         ret |-> IF replayed.ok THEN "handlers" ELSE Undefined,
                         directory |-> directory]
            /\ UNCHANGED table

\* onMessage of the handlers Pty.connect returned
OnMessage(w, message) ==
    /\ ws[w].handlers
    /\ ws[w].ready
    /\ proc' = [proc EXCEPT ![ws[w].sess] = ProcWrite(@, message)]
    /\ last' = Call("onMessage", ws[w].sess, w, TRUE, Undefined)
    /\ UNCHANGED <<table, sess, ws, bus>>

\* the socket of a sink stops being open (the peer went away)
WsDrop(w) ==
    /\ ws[w].ready
    /\ ws' = [ws EXCEPT ![w].ready = FALSE]
    /\ last' = Call("drop", 0, w, TRUE, Undefined)
    /\ UNCHANGED <<table, sess, proc, bus>>

\* onClose of the handlers Pty.connect returned
OnClose(w) ==
    /\ ws[w].handlers
    /\ ~ws[w].ready
    /\ ~ws[w].closed
    /\ ws' = [ws EXCEPT ![w].closed = TRUE]
    /\ sess' = [sess EXCEPT ![ws[w].sess].subscribers = @ \ {w}]
    /\ last' = Call("onClose", ws[w].sess, w, TRUE, Undefined)
    /\ UNCHANGED <<table, proc, bus>>

\* the dispose callback of Instance.state
Dispose ==
    /\ proc' = [i \in Created |-> IF i \in table THEN Kill(proc[i]) ELSE proc[i]]
    /\ ws' = [w \in WS |->
                IF \E i \in table : w \in sess[i].subscribers THEN Close(ws[w]) ELSE ws[w]]
    /\ table' = {}
    /\ last' = Call("dispose", 0, 0, TRUE, Undefined)
    /\ UNCHANGED <<sess, bus>>

\* a call of one of the Pty functions, within the budget of calls
ApiCall(A) ==
    calls < MaxCalls /\ A /\ calls' = calls + 1 /\ UNCHANGED notPty

\* a callback the runtime invokes
Callback(A) == A /\ UNCHANGED calls /\ UNCHANGED notPty

\* sinks are numbered in the order in which they reach Pty.connect
NextSink(w) == ~ws[w].used /\ \A v \in 1..(w - 1) : ws[v].used

PtyNext ==
    \/ \E c \in Commands, d \in Cwds, t \in Titles :
           Len(sess) < MaxSessions /\ ApiCall(Create(c, d, t))
    \/ \E id \in Ids, n \in DataSizes :
           id \in Created /\ proc[id].chunks < MaxChunks /\ Callback(OnData(id, n))
    \/ \E id \in Ids, code \in ExitCodes : Callback(OnExit(id, code))
    \/ \E id \in AnyId, t \in {Undefined, "", "u"}, z \in {None, Some(<<80, 24>>)} :
           ApiCall(Update(id, t, z))
    \/ \E id \in AnyId : ApiCall(Remove(id))
    \/ \E id \in AnyId : ApiCall(Resize(id, 80, 24))
    \/ \E id \in AnyId : ApiCall(Write(id, "x"))
    \/ \E id \in AnyId, l \in Listeners : ApiCall(Listen(id, l))
    \/ \E id \in Ids, l \in Listeners : Callback(Unlisten(id, l))
    \/ \E id \in AnyId, w \in WS, d \in Directories, f \in FailAts :
           NextSink(w) /\ ApiCall(Connect(id, w, d, f))
    \/ \E w \in WS :
           ws[w].handlers /\ Len(proc[ws[w].sess].stdin) < MaxStdin
             /\ Callback(OnMessage(w, "m"))
    \/ \E w \in WS : (ws[w].used \/ NextSink(w)) /\ Callback(WsDrop(w))
    \/ \E w \in WS : Callback(OnClose(w))
    \/ ApiCall(Dispose)

\* ------------------------------------------- OllamaChatModel.doStream
\* The response body is text made of atoms: a line feed, a blank, a piece of
\* text that is not JSON, and the JSON values of Chunks, one atom each.  The
\* texts a chunk can carry are sequences of tokens.  "a", "b" and "f" are
\* plain words without a brace.  The other tokens are JSON objects, each
\* from its "{" to its "}":
\*   "T"  {"opencode":{"tool_calls":[{"name":"t","arguments":{}}]}}
\*   "D"  {"opencode":{"tool_calls":[{"name":"t"},{"arguments":{}},{"tool":"u"}]}}
\*   "X"  {"opencode":{"tool_calls":[{"name":"<toolName>","arguments":{}}]}}
\*   "F"  {"opencode":{"final":"<text>"}}, "<text>" being the word "f"
\*   "C"  a tool choice such as {"type":"tool","toolName":"t"}
\*   "Rt", "Ru"  {"name":"t","description":..,"parameters":..}, and so for u
Objects == {"T", "D", "X", "F", "C", "Rt", "Ru"}

\* the tools a caller passes, by name
ToolNames == {"t", "u"}

\* JSON.stringify({ name, description, parameters }) of a tool
Rendered(name) == IF name = "t" THEN "Rt" ELSE "Ru"

\* toolInstruction: the system message of prompt-mode tool calling, for the
\* tools (a sequence of names) and the toolChoice (None, a string, an object)
RECURSIVE RenderTools(_)
RenderTools(tools) ==
    IF tools = <<>> THEN <<>> ELSE <<Rendered(Head(tools))>> \o RenderTools(Tail(tools))
toolInstruction(tools, toolChoice) ==
    LET choice == IF toolChoice = None THEN "a"
                  ELSE IF toolChoice[1] = "object" THEN "C" ELSE "a"
    IN <<"a", "X", "a", "F", choice, "a">> \o RenderTools(tools)

\* the reply of a model that echoes the instruction for the one tool t
Echo == toolInstruction(<<"t">>, None)

Texts == {<<>>, <<"a">>, <<"D">>, Echo}
\* Token counts come only with a closing chunk that carries no text.
Chunks == {c \in [kind : {"json"}, content : {None} \cup {Some(t) : t \in Texts},
                  response : {None, Some(<<"b">>)}, done : BOOLEAN,
                  prompt_eval_count : {None, Some(2)}, eval_count : {None, Some(3)}] :
               /\ c.content = None \/ c.response = None
               /\ c.eval_count # None => c.prompt_eval_count # None
               /\ c.prompt_eval_count # None =>
                      c.done /\ c.content = None /\ c.response = None}
LF == [kind |-> "lf"]
Blank == [kind |-> "blank"]
Garbage == [kind |-> "garbage"]
Atoms == {LF, Blank, Garbage} \cup Chunks

RECURSIVE SeqsUpTo(_, _)
SeqsUpTo(S, n) ==
    IF n = 0 THEN {<<>>}
    ELSE SeqsUpTo(S, n - 1) \cup {Append(q, a) : q \in SeqsUpTo(S, n - 1), a \in S}

\* the values reader.read() can resolve with
Values == SeqsUpTo(Atoms, MaxAtoms)

Part(type, id, data) == [type |-> type, id |-> id, data |-> data]

NoUsage == [inputTokens |-> None, outputTokens |-> None, totalTokens |-> None]

\* the usage a chunk with done: true gives
UsageOf(chunk) ==
    [inputTokens |-> chunk.prompt_eval_count,
     outputTokens |-> chunk.eval_count,
     totalTokens |-> IF chunk.prompt_eval_count # None /\ chunk.eval_count # None
                     THEN Some(chunk.prompt_eval_count[1] + chunk.eval_count[1])
                     ELSE None]

\* line.trim()
RECURSIVE TrimLeft(_)
TrimLeft(l) == IF l # <<>> /\ Head(l).kind = "blank" THEN TrimLeft(Tail(l)) ELSE l
RECURSIVE TrimRight(_)
TrimRight(l) ==
    IF l # <<>> /\ l[Len(l)].kind = "blank" THEN TrimRight(SubSeq(l, 1, Len(l) - 1)) ELSE l
TrimLine(l) == TrimRight(TrimLeft(l))

\* buffer.split("\n"), as the lines before the last "\n" and what follows it
RECURSIVE SplitLines(_, _, _)
SplitLines(text, lines, cur) ==
    IF text = <<>> THEN [lines |-> lines, rest |-> cur]
    ELSE IF Head(text).kind = "lf" THEN SplitLines(Tail(text), Append(lines, cur), <<>>)
    ELSE SplitLines(Tail(text), lines, Append(cur, Head(text)))

\* JSON.parse succeeds on a line that is one JSON value
IsJson(trimmed) == Len(trimmed) = 1 /\ trimmed[1].kind = "json"

\* extractJson: the text from the first "{" to the last "}", parsed.  The
\* slice is one JSON value only when both braces are of the same object.
RECURSIVE FirstBrace(_, _)
FirstBrace(text, i) ==
    IF i > Len(text) THEN 0 ELSE IF text[i] \in Objects THEN i ELSE FirstBrace(text, i + 1)
RECURSIVE LastBrace(_, _)
LastBrace(text, i) ==
    IF i = 0 THEN 0 ELSE IF text[i] \in Objects THEN i ELSE LastBrace(text, i - 1)
extractJson(text) ==
    LET start == FirstBrace(text, 1)
        end == LastBrace(text, Len(text))
    IN IF start = 0 \/ end = 0 THEN None
       ELSE IF start = end THEN Some(text[start])
       ELSE None

\* json?.opencode ?? json of an object: its tool_calls, each with the name
\* that call.name or call.tool gives (Undefined when neither is a string),
\* and its final text
NoRoot == [tool_calls |-> <<>>, final |-> None]
ACall(name) == [name |-> name, arguments |-> "{}"]
Root(json) ==
    CASE json = "T" -> [tool_calls |-> <<ACall("t")>>, final |-> None]
      [] json = "D" -> [tool_calls |-> <<ACall("t"), ACall(Undefined), ACall("u")>>,
                        final |-> None]
      [] json = "X" -> [tool_calls |-> <<ACall("<toolName>")>>, final |-> None]
      [] json = "F" -> [tool_calls |-> <<>>, final |-> Some(<<"f">>)]
      [] OTHER -> NoRoot

\* calls.filter(Boolean)
RECURSIVE Named(_)
Named(toolCalls) ==
    IF toolCalls = <<>> THEN <<>>
    ELSE IF Head(toolCalls).name = Undefined THEN Named(Tail(toolCalls))
    ELSE <<Head(toolCalls)>> \o Named(Tail(toolCalls))

\* parsePromptToolCall
parsePromptToolCall(text) ==
    LET json == extractJson(text)
        root == IF json = None THEN NoRoot ELSE Root(json[1])
        named == Named(root.tool_calls)
    IN IF named # <<>> THEN [kind |-> "tool", calls |-> named, text |-> <<>>]
       ELSE IF root.final # None THEN [kind |-> "final", calls |-> <<>>, text |-> root.final[1]]
       ELSE [kind |-> "final", calls |-> <<>>, text |-> text]

\* the statuses of the response of fetch; response.ok is a status of 200..299
Statuses == {200, 404, 429, 500, 503}
Ok(status) == status >= 200 /\ status <= 299

\* isRetryable of the APICallError thrown for a response that is not ok
isRetryable(status) == status >= 500

APICallError(status) ==
    [name |-> "APICallError", statusCode |-> status, isRetryable |-> isRetryable(status)]

\* what reader.read() rejects with when the caller's abortSignal fires (a
\* broken connection rejects it the same way, with another error)
ReadErrors == {[name |-> "AbortError"]}

StreamInit ==
    /\ opts \in [shouldPromptToolCall : BOOLEAN, includeRawChunks : BOOLEAN, body : BOOLEAN,
                 status : Statuses]
    /\ pc = "start"
    /\ st = [buffer |-> <<>>, isDone |-> FALSE, fullText |-> <<>>, currentTextId |-> Undefined,
             finishReason |-> "unknown", usage |-> NoUsage, reads |-> 0]
    /\ parts = <<>>
    /\ err = None
    /\ gen = None

\* ForLines that enqueues the text of a chunk as it comes, in prompt mode too
RECURSIVE ForLines_LiveInPromptMode(_, _, _)
ForLines_LiveInPromptMode(lines, s, q) ==
    IF lines = <<>> THEN [st |-> s, parts |-> q]
    ELSE
    LET trimmed == TrimLine(Head(lines))
        q1 == IF opts.includeRawChunks THEN Append(q, Part("raw", Undefined, trimmed)) ELSE q
    IN IF trimmed = <<>> THEN ForLines_LiveInPromptMode(Tail(lines), s, q)
       ELSE IF ~IsJson(trimmed)
       THEN ForLines_LiveInPromptMode(Tail(lines), [s EXCEPT !.finishReason = "error"],
                                      Append(q1, Part("error", Undefined, trimmed)))
       ELSE
       LET chunk == trimmed[1]
           delta == IF chunk.content # None THEN chunk.content ELSE chunk.response
           hasDelta == delta # None /\ delta[1] # <<>>
           s1 == IF hasDelta /\ opts.shouldPromptToolCall
                 THEN [s EXCEPT !.fullText = @ \o delta[1]]
                 ELSE s
           q3 == IF hasDelta THEN Append(q1, Part("text-delta", "ollama-text", delta[1])) ELSE q1
       IN IF chunk.done
          THEN [st |-> [s1 EXCEPT !.isDone = TRUE, !.usage = UsageOf(chunk)], parts |-> q3]
          ELSE ForLines_LiveInPromptMode(Tail(lines), s1, q3)

\* the body of the for loop over the lines of one read; s holds the locals and
\* q the parts enqueued so far
RECURSIVE ForLines(_, _, _)
ForLines(lines, s, q) ==
    IF lines = <<>> THEN [st |-> s, parts |-> q]
    ELSE
    LET trimmed == TrimLine(Head(lines))
        q1 == IF opts.includeRawChunks THEN Append(q, Part("raw", Undefined, trimmed)) ELSE q
    IN IF trimmed = <<>> THEN ForLines(Tail(lines), s, q)
       ELSE IF ~IsJson(trimmed)
       THEN ForLines(Tail(lines), [s EXCEPT !.finishReason = "error"],
                     Append(q1, Part("error", Undefined, trimmed)))
       ELSE
       LET chunk == trimmed[1]
           delta == IF chunk.content # None THEN chunk.content ELSE chunk.response
           hasDelta == delta # None /\ delta[1] # <<>>
           live == hasDelta /\ ~opts.shouldPromptToolCall
           s1 == IF hasDelta /\ opts.shouldPromptToolCall
                 THEN [s EXCEPT !.fullText = @ \o delta[1]]
                 ELSE IF live THEN [s EXCEPT !.currentTextId = "ollama-text"]
                 ELSE s
           q2 == IF live /\ s.currentTextId = Undefined
                 THEN Append(q1, Part("text-start", "ollama-text", Undefined))
                 ELSE q1
           q3 == IF live THEN Append(q2, Part("text-delta", "ollama-text", delta[1])) ELSE q2
       IN IF chunk.done
          THEN [st |-> [s1 EXCEPT !.isDone = TRUE, !.usage = UsageOf(chunk)], parts |-> q3]
          ELSE ForLines(Tail(lines), s1, q3)

\* the tool-call parts of the parsed calls
RECURSIVE ToolCallParts(_, _)
ToolCallParts(callList, n) ==
    IF callList = <<>> THEN <<>>
    ELSE <<Part("tool-call", "uuid", <<n, Head(callList)>>)>> \o ToolCallParts(Tail(callList), n + 1)

\* Finish without the text-end of an open text
Finish_NoTextEnd(s, q) ==
    LET parsedToolCall == parsePromptToolCall(s.fullText)
        reason == IF opts.shouldPromptToolCall /\ parsedToolCall.kind = "tool"
                  THEN "tool-calls" ELSE "stop"
        q1 == IF opts.shouldPromptToolCall
              THEN IF parsedToolCall.kind = "tool"
                   THEN q \o ToolCallParts(parsedToolCall.calls, 1)
                   ELSE q \o <<Part("text-start", "ollama-text", Undefined),
                               Part("text-delta", "ollama-text", parsedToolCall.text),
                               Part("text-end", "ollama-text", Undefined)>>
              ELSE q
    IN [st |-> [s EXCEPT !.currentTextId = Undefined, !.finishReason = reason],
        parts |-> Append(q1, Part("finish", Undefined, [finishReason |-> reason,
                                                         usage |-> s.usage]))]

\* what follows the read loop: the closing parts, finish, controller.close()
Finish(s, q) ==
    LET parsedToolCall == parsePromptToolCall(s.fullText)
        reason == IF opts.shouldPromptToolCall /\ parsedToolCall.kind = "tool"
                  THEN "tool-calls" ELSE "stop"
        q1 == IF opts.shouldPromptToolCall
              THEN IF parsedToolCall.kind = "tool"
                   THEN q \o ToolCallParts(parsedToolCall.calls, 1)
                   ELSE q \o <<Part("text-start", "ollama-text", Undefined),
                               Part("text-delta", "ollama-text", parsedToolCall.text),
                               Part("text-end", "ollama-text", Undefined)>>
              ELSE IF s.currentTextId # Undefined
                   THEN Append(q, Part("text-end", s.currentTextId, Undefined))
                   ELSE q
    IN [st |-> [s EXCEPT !.currentTextId = Undefined, !.finishReason = reason],
        parts |-> Append(q1, Part("finish", Undefined, [finishReason |-> reason,
                                                         usage |-> s.usage]))]

\* doStream up to the first await of start(controller): a response that is
\* not ok makes the call throw, any other is read as a stream
Start ==
    /\ pc = "start"
    /\ IF ~Ok(opts.status)
       THEN /\ err' = Some(APICallError(opts.status))
            /\ pc' = "thrown"
            /\ UNCHANGED <<st, parts>>
       ELSE IF opts.body
       THEN /\ parts' = Append(parts, Part("stream-start", Undefined, Undefined))
            /\ pc' = "read"
            /\ UNCHANGED <<st, err>>
       ELSE /\ parts' = parts \o <<Part("stream-start", Undefined, Undefined),
                                   Part("finish", Undefined,
                                        [finishReason |-> "error", usage |-> st.usage])>>
            /\ st' = [st EXCEPT !.finishReason = "error"]
            /\ pc' = "closed"
            /\ UNCHANGED err
    /\ UNCHANGED <<opts, gen, notStream>>

\* reader.read() resolved with a value: one turn of the while loop
ReadValue(value) ==
    /\ pc = "read"
    /\ LET split == SplitLines(st.buffer \o value, <<>>, <<>>)
           s0 == [st EXCEPT !.buffer = split.rest, !.reads = @ + 1]
           r == ForLines(split.lines, s0, parts)
           f == Finish(r.st, r.parts)
       IN IF r.st.isDone
          THEN /\ st' = f.st
               /\ parts' = f.parts
               /\ pc' = "closed"
          ELSE /\ st' = r.st
               /\ parts' = r.parts
               /\ pc' = "read"
    /\ UNCHANGED <<opts, err, gen, notStream>>

\* reader.read() resolved with done
ReadDone ==
    /\ pc = "read"
    /\ LET f == Finish(st, parts)
       IN /\ st' = f.st
          /\ parts' = f.parts
    /\ pc' = "closed"
    /\ UNCHANGED <<opts, err, gen, notStream>>

\* reader.read() rejected (the abort signal fired, the connection broke):
\* start(controller) throws and the stream is errored with what was thrown
ReadRejects(e) ==
    /\ pc = "read"
    /\ pc' = "errored"
    /\ err' = Some(e)
    /\ UNCHANGED <<opts, st, parts, gen, notStream>>

\* JSON.parse(rawText) of doGenerate: white space around the value is allowed
RECURSIVE Strip(_)
Strip(text) ==
    IF text # <<>> /\ Head(text).kind \in {"blank", "lf"} THEN Strip(Tail(text))
    ELSE IF text # <<>> /\ text[Len(text)].kind \in {"blank", "lf"}
    THEN Strip(SubSeq(text, 1, Len(text) - 1))
    ELSE text

\* doGenerate, the response body being rawText
DoGenerate(rawText) ==
    /\ pc = "start"
    /\ IF ~Ok(opts.status)
       THEN /\ err' = Some(APICallError(opts.status))
            /\ pc' = "thrown"
            /\ UNCHANGED gen
       ELSE LET parsed == IF IsJson(Strip(rawText)) THEN Some(Strip(rawText)[1]) ELSE None
                text == IF parsed = None THEN <<>>
                        ELSE IF parsed[1].content # None THEN parsed[1].content[1]
                        ELSE IF parsed[1].response # None THEN parsed[1].response[1]
                        ELSE <<>>
                usage == IF parsed = None THEN NoUsage ELSE UsageOf(parsed[1])
                parsedToolCall == parsePromptToolCall(text)
            IN /\ gen' = Some(
                     IF opts.shouldPromptToolCall /\ parsedToolCall.kind = "tool"
                     THEN [content |-> ToolCallParts(parsedToolCall.calls, 1),
                           finishReason |-> "tool-calls", usage |-> usage]
                     ELSE IF opts.shouldPromptToolCall
                     THEN [content |-> <<Part("text", Undefined, parsedToolCall.text)>>,
                           finishReason |-> "stop", usage |-> usage]
                     ELSE [content |-> <<Part("text", Undefined, text)>>,
                           finishReason |-> "stop", usage |-> usage])
               /\ pc' = "returned"
               /\ UNCHANGED err
    /\ UNCHANGED <<opts, st, parts, notStream>>

StreamNext ==
    \/ Start
    \/ \E value \in Values : st.reads < MaxReads /\ ReadValue(value)
    \/ ReadDone
    \/ \E e \in ReadErrors : ReadRejects(e)
    \/ \E rawText \in Values : DoGenerate(rawText)

\* the stream is left as it is outside doStream
StreamIdle ==
    /\ opts = [shouldPromptToolCall |-> FALSE, includeRawChunks |-> FALSE, body |-> FALSE,
               status |-> 200]
    /\ pc = "start"
    /\ st = [buffer |-> <<>>, isDone |-> FALSE, fullText |-> <<>>, currentTextId |-> Undefined,
             finishReason |-> "unknown", usage |-> NoUsage, reads |-> 0]
    /\ parts = <<>>
    /\ err = None
    /\ gen = None

\* ------------------------------------------------------- Provider state
\* A map is a function from its keys.  A model is kept as its status and the
\* names of its variants, a provider as the fields of Info.
Put(map, k, v) == [x \in DOMAIN map \cup {k} |-> IF x = k THEN v ELSE map[x]]
Del(map, k) == [x \in DOMAIN map \ {k} |-> map[x]]
Has(map, k) == k \in DOMAIN map
EmptyMap == [x \in {} |-> x]

\* mergeDeep on flat maps: the keys of both, the source's value where both have one
MergeMap(destination, source) ==
    [k \in DOMAIN destination \cup DOMAIN source |->
        IF k \in DOMAIN source THEN source[k] ELSE destination[k]]

\* mergeDeep in which the fields the destination has are kept
mergeDeep_DestinationWins(destination, source) ==
    [k \in DOMAIN destination \cup DOMAIN source |->
        IF k \in DOMAIN destination THEN destination[k] ELSE source[k]]

\* mergeDeep(destination, source) of an Info and a partial Info: the fields
\* of the source win, options (a plain object on both sides) is merged
mergeDeep(destination, source) ==
    [k \in DOMAIN destination \cup DOMAIN source |->
        IF k \notin DOMAIN source THEN destination[k]
        ELSE IF k \in DOMAIN destination /\ k = "options"
        THEN MergeMap(destination[k], source[k])
        ELSE source[k]]

AModel(status, variants) == [status |-> status, variants |-> variants]

\* ProviderTransform.variants(model): the variants generated for a model
GeneratedVariants(modelID) == IF modelID = "m" THEN {"high", "low"} ELSE {}

\* fromModelsDevProvider of the provider p of the bundled catalog, whose one
\* model m has the given status
Bundled(status) ==
    "p" :> [id |-> "p", source |-> "custom", name |-> "P", env |-> <<"P_KEY">>,
            key |-> None, options |-> EmptyMap,
            models |-> ("m" :> AModel(status, GeneratedVariants("m")))]

\* the providers the build adds to a catalog that lacks them
Owiseman ==
    [id |-> "owiseman", source |-> "custom", name |-> "Owiseman",
     env |-> <<"OWISEMAN_API_KEY">>, key |-> None, options |-> EmptyMap,
     models |-> ("nemotron-3-nano:30b" :> AModel("active", {}))]
Ollama ==
    [id |-> "ollama", source |-> "custom", name |-> "Ollama",
     env |-> <<"OLLAMA_BASE_URL", "OLLAMA_HOST">>, key |-> None, options |-> EmptyMap,
     models |-> ("llama3.1:8b-instruct" :> AModel("active", {}))]

\* the github-copilot-enterprise provider made of github-copilot
CopilotEnterprise(githubCopilot) ==
    [githubCopilot EXCEPT !.id = "github-copilot-enterprise",
                          !.name = "GitHub Copilot Enterprise"]

\* the state function up to "extend database from config"
InitialDatabase(modelsDev) ==
    LET d1 == IF Has(modelsDev, "owiseman") THEN modelsDev
              ELSE Put(modelsDev, "owiseman", Owiseman)
        d2 == IF Has(d1, "ollama") THEN d1 ELSE Put(d1, "ollama", Ollama)
    IN IF Has(d2, "github-copilot")
       THEN Put(d2, "github-copilot-enterprise", CopilotEnterprise(d2["github-copilot"]))
       ELSE d2

\* disabled.has(providerID)
Disabled(config, providerID) == providerID \in config.disabled_providers

\* isProviderAllowed without the test of enabled_providers
isProviderAllowed_IgnoresEnabled(config, providerID) == ~Disabled(config, providerID)

\* isProviderAllowed
isProviderAllowed(config, providerID) ==
    IF config.enabled_providers # None /\ providerID \notin config.enabled_providers[1]
    THEN FALSE
    ELSE IF Disabled(config, providerID) THEN FALSE
    ELSE TRUE

\* mergeProvider, on the providers provs and the catalog db
mergeProvider(provs, db, providerID, partial) ==
    IF Has(provs, providerID)
    THEN Put(provs, providerID, mergeDeep(provs[providerID], partial))
    ELSE IF ~Has(db, providerID) THEN provs
    ELSE Put(provs, providerID, mergeDeep(db[providerID], partial))

\* PickVariants without pickBy: every merged variant is kept
PickVariants_KeepsDisabled(variants, configVariants) == variants \cup DOMAIN configVariants

\* pickBy(merged, (v) => !v.disabled) of mergeDeep(variants, configVariants),
\* as the names that are left
PickVariants(variants, configVariants) ==
    {v \in variants \cup DOMAIN configVariants :
        ~(Has(configVariants, v) /\ configVariants[v].disabled)}

\* a ?? b on optional values
Or(a, b) == IF a # None THEN a[1] ELSE b

\* "extend database from config", the models of one config provider
RECURSIVE ExtendModels(_, _, _)
ExtendModels(modelIDs, models, provider) ==
    IF modelIDs = {} THEN models
    ELSE LET modelID == CHOOSE x \in modelIDs : TRUE
             model == provider.models[modelID]
             status == IF model.status # None THEN model.status[1]
                       ELSE IF Has(models, modelID) THEN models[modelID].status
                       ELSE "active"
             parsedModel == AModel(status,
                                   PickVariants(GeneratedVariants(modelID), model.variants))
         IN ExtendModels(modelIDs \ {modelID}, Put(models, modelID, parsedModel), provider)

\* "extend database from config"
RECURSIVE ExtendDatabase(_, _, _)
ExtendDatabase(ids, db, config) ==
    IF ids = {} THEN db
    ELSE LET providerID == CHOOSE x \in ids : TRUE
             provider == config.provider[providerID]
             exists == Has(db, providerID)
             parsed == [id |-> providerID,
                        name |-> Or(provider.name, IF exists THEN db[providerID].name
                                                   ELSE providerID),
                        env |-> Or(provider.env, IF exists THEN db[providerID].env ELSE <<>>),
                        options |-> MergeMap(IF exists THEN db[providerID].options
                                             ELSE EmptyMap,
                                             Or(provider.options, EmptyMap)),
                        source |-> "config",
                        key |-> None,
                        models |-> ExtendModels(DOMAIN provider.models,
                                                IF exists THEN db[providerID].models
                                                ELSE EmptyMap,
                                                provider)]
         IN ExtendDatabase(ids \ {providerID}, Put(db, providerID, parsed), config)

\* "load env" that stores the value found whatever the number of variables
RECURSIVE LoadEnv_KeyAlways(_, _, _, _)
LoadEnv_KeyAlways(ids, provs, db, in) ==
    IF ids = {} THEN provs
    ELSE LET providerID == CHOOSE x \in ids : TRUE
             provider == db[providerID]
             found == SelectSeq(provider.env, LAMBDA item : Has(in.env, item))
             next == IF Disabled(in.config, providerID) \/ found = <<>> THEN provs
                     ELSE mergeProvider(provs, db, providerID,
                              [source |-> "env", key |-> Some(in.env[found[1]])])
         IN LoadEnv_KeyAlways(ids \ {providerID}, next, db, in)

\* "load env"
RECURSIVE LoadEnv(_, _, _, _)
LoadEnv(ids, provs, db, in) ==
    IF ids = {} THEN provs
    ELSE LET providerID == CHOOSE x \in ids : TRUE
             provider == db[providerID]
             found == SelectSeq(provider.env, LAMBDA item : Has(in.env, item))
             next == IF Disabled(in.config, providerID) \/ found = <<>> THEN provs
                     ELSE mergeProvider(provs, db, providerID,
                              [source |-> "env",
                               key |-> IF Len(provider.env) = 1
                                       THEN Some(in.env[found[1]]) ELSE None])
         IN LoadEnv(ids \ {providerID}, next, db, in)

\* "load apikeys"
RECURSIVE LoadApiKeys(_, _, _, _)
LoadApiKeys(ids, provs, db, in) ==
    IF ids = {} THEN provs
    ELSE LET providerID == CHOOSE x \in ids : TRUE
             provider == in.auth[providerID]
             next == IF Disabled(in.config, providerID) \/ provider.type # "api" THEN provs
                     ELSE mergeProvider(provs, db, providerID,
                              [source |-> "api", key |-> Some(provider.key)])
         IN LoadApiKeys(ids \ {providerID}, next, db, in)

\* the loop over Plugin.list()
RECURSIVE LoadPlugins(_, _, _, _)
LoadPlugins(list, provs, db, in) ==
    IF list = <<>> THEN provs
    ELSE LET plugin == Head(list)
             providerID == plugin.auth[1].provider
             enterprise == "github-copilot-enterprise"
             auth == Has(in.auth, providerID)
             hasAuth == auth \/ (providerID = "github-copilot" /\ Has(in.auth, enterprise))
             p1 == IF auth
                   THEN mergeProvider(provs, db, providerID,
                            [source |-> "custom", options |-> plugin.auth[1].loader[1]])
                   ELSE provs
             p2 == IF providerID = "github-copilot" /\ ~Disabled(in.config, enterprise)
                      /\ Has(in.auth, enterprise)
                   THEN mergeProvider(p1, db, enterprise,
                            [source |-> "custom", options |-> plugin.auth[1].loader[1]])
                   ELSE p1
         IN IF plugin.auth = None THEN LoadPlugins(Tail(list), provs, db, in)
            ELSE IF Disabled(in.config, providerID) THEN LoadPlugins(Tail(list), provs, db, in)
            ELSE IF ~hasAuth THEN LoadPlugins(Tail(list), provs, db, in)
            ELSE IF plugin.auth[1].loader = None THEN LoadPlugins(Tail(list), provs, db, in)
            ELSE LoadPlugins(Tail(list), p2, db, in)

\* LoadCustom that merges whatever a loader returns, autoload or not
RECURSIVE LoadCustom_IgnoresAutoload(_, _, _, _)
LoadCustom_IgnoresAutoload(ids, provs, db, in) ==
    IF ids = {} THEN provs
    ELSE LET providerID == CHOOSE x \in ids : TRUE
             result == in.loaders[providerID]
             next == IF Disabled(in.config, providerID) THEN provs
                     ELSE mergeProvider(provs, db, providerID,
                              [source |-> "custom", options |-> result.options])
         IN LoadCustom_IgnoresAutoload(ids \ {providerID}, next, db, in)

\* the loop over CUSTOM_LOADERS and ProviderExtensions.customLoaders()
RECURSIVE LoadCustom(_, _, _, _)
LoadCustom(ids, provs, db, in) ==
    IF ids = {} THEN provs
    ELSE LET providerID == CHOOSE x \in ids : TRUE
             result == in.loaders[providerID]
             next == IF Disabled(in.config, providerID) THEN provs
                     ELSE IF result.autoload \/ Has(provs, providerID)
                     THEN mergeProvider(provs, db, providerID,
                              [source |-> "custom", options |-> result.options])
                     ELSE provs
         IN LoadCustom(ids \ {providerID}, next, db, in)

\* "load config"
RECURSIVE LoadConfig(_, _, _, _)
LoadConfig(ids, provs, db, config) ==
    IF ids = {} THEN provs
    ELSE LET providerID == CHOOSE x \in ids : TRUE
             provider == config.provider[providerID]
             p0 == [source |-> "config"]
             p1 == IF provider.env # None THEN Put(p0, "env", provider.env[1]) ELSE p0
             p2 == IF provider.name # None THEN Put(p1, "name", provider.name[1]) ELSE p1
             partial == IF provider.options # None
                        THEN Put(p2, "options", provider.options[1]) ELSE p2
         IN LoadConfig(ids \ {providerID}, mergeProvider(provs, db, providerID, partial),
                       db, config)

\* Pruned without the test of the status deprecated
Pruned_KeepsDeprecated(providerID, modelID, model, configProvider, flag) ==
    \/ modelID = "gpt-5-chat-latest"
    \/ providerID = "openrouter" /\ modelID = "openai/gpt-5-chat"
    \/ model.status = "alpha" /\ ~flag
    \/ /\ configProvider # None
       /\ \/ configProvider[1].blacklist # None /\ modelID \in configProvider[1].blacklist[1]
          \/ configProvider[1].whitelist # None /\ modelID \notin configProvider[1].whitelist[1]

\* the conditions under which the filter loop deletes a model
Pruned(providerID, modelID, model, configProvider, flag) ==
    \/ modelID = "gpt-5-chat-latest"
    \/ providerID = "openrouter" /\ modelID = "openai/gpt-5-chat"
    \/ model.status = "alpha" /\ ~flag
    \/ model.status = "deprecated"
    \/ /\ configProvider # None
       /\ \/ configProvider[1].blacklist # None /\ modelID \in configProvider[1].blacklist[1]
          \/ configProvider[1].whitelist # None /\ modelID \notin configProvider[1].whitelist[1]

\* the loop over the models of one provider of the registry
RECURSIVE FilterModels(_, _, _, _, _)
FilterModels(modelIDs, models, providerID, configProvider, flag) ==
    IF modelIDs = {} THEN models
    ELSE LET modelID == CHOOSE x \in modelIDs : TRUE
             model == models[modelID]
             hasVariants == configProvider # None /\ Has(configProvider[1].models, modelID)
             filtered == IF hasVariants
                         THEN [model EXCEPT !.variants =
                                  PickVariants(@, configProvider[1].models[modelID].variants)]
                         ELSE model
             next == IF Pruned(providerID, modelID, model, configProvider, flag)
                     THEN Del(models, modelID)
                     ELSE Put(models, modelID, filtered)
         IN FilterModels(modelIDs \ {modelID}, next, providerID, configProvider, flag)

\* NoModels of a filter loop that keeps a provider without models
NoModels_Never(models) == FALSE

\* Object.keys(provider.models).length === 0
NoModels(models) == DOMAIN models = {}

\* the loop over the providers of the registry that ends the build
RECURSIVE Filter(_, _, _)
Filter(ids, provs, in) ==
    IF ids = {} THEN provs
    ELSE LET providerID == CHOOSE x \in ids : TRUE
             configProvider == IF Has(in.config.provider, providerID)
                               THEN Some(in.config.provider[providerID]) ELSE None
             models == FilterModels(DOMAIN provs[providerID].models, provs[providerID].models,
                                    providerID, configProvider, in.flag)
             next == IF ~isProviderAllowed(in.config, providerID) THEN Del(provs, providerID)
                     ELSE IF NoModels(models) THEN Del(provs, providerID)
                     ELSE Put(provs, providerID, [provs[providerID] EXCEPT !.models = models])
         IN Filter(ids \ {providerID}, next, in)

\* what config.provider can hold for the bundled provider p: its model m
\* with new variants, or with a status, or a new model x
NoEntry ==
    [env |-> None, name |-> None, options |-> None, blacklist |-> None, whitelist |-> None,
     models |-> EmptyMap]
AConfigModel(status, variants) == [status |-> status, variants |-> variants]
PModels ==
    {EmptyMap,
     "m" :> AConfigModel(None, ("high" :> [disabled |-> TRUE]) @@ ("extra" :> [disabled |-> FALSE]))}
PEntries ==
    {[NoEntry EXCEPT !.options = Some("baseURL" :> "u"), !.blacklist = l[1],
                     !.whitelist = l[2], !.models = ms] :
        l \in {<<None, None>>, <<Some({"m"}), None>>, <<None, Some({"m"})>>,
               <<None, Some({"x"})>>},
        ms \in PModels}
    \cup {[NoEntry EXCEPT !.models = ms] :
             ms \in {"m" :> AConfigModel(Some("alpha"), EmptyMap),
                     "x" :> AConfigModel(Some("deprecated"), EmptyMap),
                     "x" :> AConfigModel(None, "fast" :> [disabled |-> TRUE])}}
\* and for a provider c of the config alone: a model k, or no model
CEntries ==
    {[NoEntry EXCEPT !.name = Some("C"), !.models = ms] :
        ms \in {EmptyMap, "k" :> AConfigModel(None, EmptyMap)}}

\* config.provider
ConfigProviders ==
    {EmptyMap} \cup {"p" :> e : e \in PEntries} \cup {"c" :> e : e \in CEntries}
    \cup {("p" :> e) @@ ("c" :> f) : e \in PEntries, f \in CEntries}

Configs ==
    [disabled_providers : {{}, {"p"}, {"c"}},
     enabled_providers : {None, Some({"p"})},
     provider : ConfigProviders]

\* Auth.all() and Plugin.list(): no record; an API key of p; an oauth record
\* of p and the plugin of p that has a loader; that plugin and no record
Credentials ==
    {[auth |-> EmptyMap, plugins |-> <<>>],
     [auth |-> "p" :> [type |-> "api", key |-> "k2"], plugins |-> <<>>],
     [auth |-> "p" :> [type |-> "oauth", key |-> ""],
      plugins |-> <<[auth |-> Some([provider |-> "p", loader |-> Some("plugin" :> "o")])]>>],
     [auth |-> EmptyMap,
      plugins |-> <<[auth |-> Some([provider |-> "p", loader |-> Some("plugin" :> "o")])]>>]}

\* what the custom loaders return: the one of ollama loads itself, the one
\* of p, when there is one, may or may not
LoaderResults ==
    {"ollama" :> [autoload |-> TRUE, options |-> "baseURL" :> "o"]}
    \cup {("ollama" :> [autoload |-> TRUE, options |-> "baseURL" :> "o"])
            @@ ("p" :> [autoload |-> a, options |-> "loader" :> "o"]) : a \in BOOLEAN}

ModelStatuses == {"active", "alpha", "deprecated"}

\* Env.all(): nothing set, the key of p, or the second variable of ollama
Environments == {EmptyMap, "P_KEY" :> "k1", "OLLAMA_HOST" :> "h"}

\* everything a build reads
Inputs ==
    {[config |-> c, modelsDev |-> Bundled(status), env |-> e, auth |-> cr.auth,
      plugins |-> cr.plugins, loaders |-> l, flag |-> f] :
        c \in Configs, status \in ModelStatuses, e \in Environments,
        cr \in Credentials, l \in LoaderResults, f \in BOOLEAN}

ProviderInit ==
    /\ inputs \in Inputs
    /\ database = EmptyMap
    /\ providers = EmptyMap
    /\ stage = "start"

\* one stage of the build: the catalog and the registry after it
Stage(from, to, db, provs) ==
    /\ stage = from
    /\ stage' = to
    /\ database' = db
    /\ providers' = provs
    /\ UNCHANGED <<inputs, notReg>>

BuildStart == Stage("start", "extend", InitialDatabase(inputs.modelsDev), providers)
BuildExtend ==
    Stage("extend", "env",
          ExtendDatabase(DOMAIN inputs.config.provider, database, inputs.config), providers)
BuildEnv == Stage("env", "apikeys", database, LoadEnv(DOMAIN database, providers, database, inputs))
BuildApiKeys ==
    Stage("apikeys", "plugins", database,
          LoadApiKeys(DOMAIN inputs.auth, providers, database, inputs))
BuildPlugins ==
    Stage("plugins", "custom", database, LoadPlugins(inputs.plugins, providers, database, inputs))
BuildCustom ==
    Stage("custom", "config", database,
          LoadCustom(DOMAIN inputs.loaders, providers, database, inputs))
BuildConfig ==
    Stage("config", "filter", database,
          LoadConfig(DOMAIN inputs.config.provider, providers, database, inputs.config))
BuildFilter == Stage("filter", "done", database, Filter(DOMAIN providers, providers, inputs))

ProviderNext ==
    \/ BuildStart
    \/ BuildExtend
    \/ BuildEnv
    \/ BuildApiKeys
    \/ BuildPlugins
    \/ BuildCustom
    \/ BuildConfig
    \/ BuildFilter

\* no build of the Provider state runs
ProviderIdle ==
    /\ inputs = <<>>
    /\ database = <<>>
    /\ providers = <<>>
    /\ stage = "idle"

\* ------------------------- Provider.getModel, getLanguage and getSDK
\* The calls run against the object state() resolves to.  Its providers are
\* openai, whose package is bundled and which has a model loader, and ollama,
\* whose package has to be installed and whose driver has a chat function.
\* No id holds a "/", so the key `${providerID}/${model.id}` of the handle
\* cache is modelled by the pair of the two ids.  A driver and a handle are
\* objects: each is the n-th object constructed.

\* a model of the registry, as far as getSDK and getLanguage read it
LModel(providerID, id, npm, url) ==
    [id |-> id, providerID |-> providerID, family |-> "",
     api |-> [id |-> id, npm |-> npm, url |-> url]]

\* the providers of the registry
Registry ==
    ("openai" :>
        [id |-> "openai", key |-> Some("sk"),
         options |-> [baseURL |-> None, apiKey |-> None, includeUsage |-> None],
         models |-> [m \in {"gpt-4", "gpt-4o", "gpt-5", "o3"} |->
                       LModel("openai", m, "@ai-sdk/openai", "https://api.openai.com/v1")]])
    @@
    ("ollama" :>
        [id |-> "ollama", key |-> None,
         options |-> [baseURL |-> Some("http://localhost:11434"), apiKey |-> None,
                      includeUsage |-> None],
         models |-> ("llama3.1" :> LModel("ollama", "llama3.1", "ollama-ai-provider-v2", ""))])

\* the packages of BUNDLED_PROVIDERS that the registry can name
BUNDLED_PROVIDERS == {"@ai-sdk/openai", "@ai-sdk/openai-compatible"}

\* the packages whose driver has a chat function
ChatPackages == {"ollama-ai-provider-v2"}

\* providerID.includes("ollama")
IncludesOllama(providerID) == providerID = "ollama"

\* the calls, numbered in the order in which they are made
Tasks == 1..MaxTasks

IdleTask ==
    [fn |-> "none", pc |-> "idle", providerID |-> "", modelID |-> "", sdk |-> None,
     language |-> None, ret |-> None, thrown |-> None, seen |-> {}]

\* the errors of the Provider namespace
InitError(providerID) == [name |-> "ProviderInitError", providerID |-> providerID]
ModelNotFoundError(providerID, modelID, suggestions) ==
    [name |-> "ProviderModelNotFoundError", providerID |-> providerID,
     modelID |-> modelID, suggestions |-> suggestions]

\* what state() resolves to before any call
NewState(modelLoaders) ==
    [providers |-> Registry, models |-> EmptyMap, sdk |-> EmptyMap,
     modelLoaders |-> modelLoaders]

LanguageInit ==
    /\ state \in {NewState(l) : l \in {{}, {"openai"}}}
    /\ task = [t \in Tasks |-> IdleTask]
    /\ made = <<>>
    /\ fuzzy = EmptyMap

\* the model a call of getLanguage was given
ModelOf(t) == state.providers[task[t].providerID].models[task[t].modelID]

\* getSDK: the options the driver is made with and the key of the driver cache
SdkKey(model) ==
    LET provider == state.providers[model.providerID]
        options == provider.options
        resolvedNpm == IF model.api.npm = "custom" THEN "@ai-sdk/openai-compatible"
                       ELSE model.api.npm
    IN [npm |-> resolvedNpm,
        options |->
          [baseURL |-> IF options.baseURL \in {None, Some("")} THEN Some(model.api.url)
                       ELSE options.baseURL,
           apiKey |-> IF options.apiKey = None /\ provider.key # None THEN provider.key
                      ELSE options.apiKey,
           includeUsage |-> IF resolvedNpm = "@ai-sdk/openai-compatible"
                                 /\ options.includeUsage # Some(FALSE)
                            THEN Some(TRUE) ELSE options.includeUsage]]

\* the key of the handle cache
LanguageKey(t) == <<task[t].providerID, task[t].modelID>>

\* a call is made when the calls before it were; it sees which have ended
Begin(t) == task[t].pc = "idle" /\ \A u \in 1..(t - 1) : task[u].pc # "idle"
Ended == {u \in Tasks : task[u].pc = "done"}

\* a call ends by returning a value or throwing an error
Return(t, value) == task' = [task EXCEPT ![t].pc = "done", ![t].ret = Some(value)]
Throw(t, e) == task' = [task EXCEPT ![t].pc = "done", ![t].thrown = Some(e)]

\* getLanguage is called with a model of the registry, up to await state()
CallGetLanguage(t, providerID, modelID) ==
    /\ Begin(t)
    /\ Has(state.providers, providerID)
    /\ Has(state.providers[providerID].models, modelID)
    /\ task' = [task EXCEPT ![t] = [IdleTask EXCEPT !.fn = "getLanguage", !.pc = "state",
                                                    !.providerID = providerID,
                                                    !.modelID = modelID, !.seen = Ended]]
    /\ UNCHANGED <<state, made, fuzzy, notLang>>

\* getLanguage from state() to the call of getSDK, which awaits state()
LanguageLookup(t) ==
    /\ task[t].fn = "getLanguage"
    /\ task[t].pc = "state"
    /\ IF Has(state.models, LanguageKey(t))
       THEN Return(t, state.models[LanguageKey(t)])
       ELSE task' = [task EXCEPT ![t].pc = "getSDK"]
    /\ UNCHANGED <<state, made, fuzzy, notLang>>

\* getSDK stores the driver it made and returns it to getLanguage
Loaded(t, key) ==
    LET loaded == [kind |-> "sdk", n |-> Len(made) + 1]
    IN /\ made' = Append(made, [kind |-> "sdk", key |-> key, by |-> t, via |-> key.npm])
       /\ state' = [state EXCEPT !.sdk = Put(@, key, loaded)]
       /\ task' = [task EXCEPT ![t].pc = "load", ![t].sdk = Some(loaded)]

\* getSDK from state() to its return or to the install of the package; the
\* function of a bundled package may throw
GetSDK(t, throws) ==
    /\ task[t].pc = "getSDK"
    /\ LET key == SdkKey(ModelOf(t))
       IN IF Has(state.sdk, key)
          THEN /\ ~throws
               /\ task' = [task EXCEPT ![t].pc = "load", ![t].sdk = Some(state.sdk[key])]
               /\ UNCHANGED <<state, made>>
          ELSE IF key.npm \in BUNDLED_PROVIDERS
          THEN IF throws
               THEN Throw(t, InitError(task[t].providerID)) /\ UNCHANGED <<state, made>>
               ELSE Loaded(t, key)
          ELSE /\ ~throws
               /\ task' = [task EXCEPT ![t].pc = "install"]
               /\ UNCHANGED <<state, made>>
    /\ UNCHANGED <<fuzzy, notLang>>

\* getSDK: BunProc.install ends
Install(t, throws) ==
    /\ task[t].pc = "install"
    /\ IF throws THEN Throw(t, InitError(task[t].providerID))
       ELSE task' = [task EXCEPT ![t].pc = "import"]
    /\ UNCHANGED <<state, made, fuzzy, notLang>>

\* getSDK: import ends, and the create function of the module is called
Import(t, throws) ==
    /\ task[t].pc = "import"
    /\ IF throws THEN Throw(t, InitError(task[t].providerID)) /\ UNCHANGED <<state, made>>
       ELSE Loaded(t, SdkKey(ModelOf(t)))
    /\ UNCHANGED <<fuzzy, notLang>>

\* getLanguage: which function makes the handle
Loader(t) ==
    IF task[t].providerID \in state.modelLoaders THEN "modelLoader"
    ELSE IF (ModelOf(t).family = "ollama" \/ IncludesOllama(task[t].providerID))
              /\ made[task[t].sdk[1].n].via \in ChatPackages
    THEN "chat"
    ELSE "languageModel"

\* getLanguage from the return of getSDK to the handle or to the error
LoadLanguage(t, outcome) ==
    /\ task[t].pc = "load"
    /\ CASE outcome = "ok" ->
              /\ made' = Append(made, [kind |-> "language", key |-> LanguageKey(t),
                                       by |-> t, via |-> Loader(t)])
              /\ task' = [task EXCEPT ![t].pc = "set",
                              ![t].language = Some([kind |-> "language", n |-> Len(made) + 1])]
         [] outcome = "NoSuchModelError" ->
              /\ Throw(t, ModelNotFoundError(task[t].providerID, task[t].modelID, None))
              /\ UNCHANGED made
         [] OTHER ->
              /\ Throw(t, [name |-> outcome])
              /\ UNCHANGED made
    /\ UNCHANGED <<state, fuzzy, notLang>>

\* StoreLanguage that leaves the handle cache alone
StoreLanguage_NoCache(t) ==
    /\ task[t].pc = "set"
    /\ Return(t, task[t].language[1])
    /\ UNCHANGED <<state, made, fuzzy, notLang>>

\* getLanguage: state.models.set(key, language) and the return
StoreLanguage(t) ==
    /\ task[t].pc = "set"
    /\ state' = [state EXCEPT !.models = Put(@, LanguageKey(t), task[t].language[1])]
    /\ Return(t, task[t].language[1])
    /\ UNCHANGED <<made, fuzzy, notLang>>

LanguageNext ==
    \/ \E t \in Tasks, p \in {"openai", "ollama"}, m \in {"gpt-4", "llama3.1"} :
           CallGetLanguage(t, p, m)
    \/ \E t \in Tasks : LanguageLookup(t)
    \/ \E t \in Tasks, throws \in BOOLEAN : GetSDK(t, throws)
    \/ \E t \in Tasks, throws \in BOOLEAN : Install(t, throws)
    \/ \E t \in Tasks, throws \in BOOLEAN : Import(t, throws)
    \/ \E t \in Tasks, o \in {"ok", "NoSuchModelError", "Error"} : LoadLanguage(t, o)
    \/ \E t \in Tasks : StoreLanguage(t)

\* fuzzysort scores a target against a query when the query matches it
Scores ==
    {[matched |-> FALSE, score |-> 0], [matched |-> TRUE, score |-> 0 - 20000],
     [matched |-> TRUE, score |-> 0 - 1]}

\* the ids getModel is asked for that the registry does not have, and what
\* they are compared with
Queries == {"zz"}
Targets == DOMAIN Registry \cup DOMAIN Registry["openai"].models

LookupInit ==
    /\ state = NewState({})
    /\ task = [t \in Tasks |-> IdleTask]
    /\ made = <<>>
    /\ fuzzy \in [Queries \X Targets -> Scores]

\* fuzzysort.go without the limit
Go_NoLimit(query, targets, limit, threshold) ==
    LET pass == {x \in targets : fuzzy[<<query, x>>].matched
                                   /\ fuzzy[<<query, x>>].score >= threshold}
    IN {q \in [1..Cardinality(pass) -> pass] :
          /\ \A i, j \in DOMAIN q : i # j => q[i] # q[j]
          /\ \A i, j \in DOMAIN q :
                 i < j => fuzzy[<<query, q[i]>>].score >= fuzzy[<<query, q[j]>>].score}

\* fuzzysort.go(query, targets, {limit, threshold}): the targets the query
\* matches with a score not under the threshold, best first, limit of them
\* at most; the results it may give, targets of equal score in any order
Go(query, targets, limit, threshold) ==
    LET pass == {x \in targets : fuzzy[<<query, x>>].matched
                                   /\ fuzzy[<<query, x>>].score >= threshold}
        ranked == {q \in [1..Cardinality(pass) -> pass] :
                     /\ \A i, j \in DOMAIN q : i # j => q[i] # q[j]
                     /\ \A i, j \in DOMAIN q :
                            i < j => fuzzy[<<query, q[i]>>].score
                                       >= fuzzy[<<query, q[j]>>].score}
    IN {SubSeq(q, 1, IF Len(q) < limit THEN Len(q) ELSE limit) : q \in ranked}

\* getModel is called, up to await state()
CallGetModel(t, providerID, modelID) ==
    /\ Begin(t)
    /\ t <= MaxLookups
    /\ task' = [task EXCEPT ![t] = [IdleTask EXCEPT !.fn = "getModel", !.pc = "state",
                                                    !.providerID = providerID,
                                                    !.modelID = modelID, !.seen = Ended]]
    /\ UNCHANGED <<state, made, fuzzy, notLang>>

\* getModel from state() on
GetModel(t) ==
    /\ task[t].fn = "getModel"
    /\ task[t].pc = "state"
    /\ LET providerID == task[t].providerID
           modelID == task[t].modelID
       IN IF ~Has(state.providers, providerID)
          THEN \E suggestions \in Go(providerID, DOMAIN state.providers, 3, 0 - 10000) :
                   Throw(t, ModelNotFoundError(providerID, modelID, Some(suggestions)))
          ELSE IF ~Has(state.providers[providerID].models, modelID)
          THEN \E suggestions \in Go(modelID, DOMAIN state.providers[providerID].models,
                                     3, 0 - 10000) :
                   Throw(t, ModelNotFoundError(providerID, modelID, Some(suggestions)))
          ELSE Return(t, state.providers[providerID].models[modelID])
    /\ UNCHANGED <<state, made, fuzzy, notLang>>

LookupNext ==
    \/ \E t \in Tasks, p \in {"openai", "zz"}, m \in {"gpt-4", "zz"} : CallGetModel(t, p, m)
    \/ \E t \in Tasks : GetModel(t)

LanguageIdle ==
    /\ state = <<>>
    /\ task = <<>>
    /\ made = <<>>
    /\ fuzzy = <<>>

\* --------------------------- CUSTOM_LOADERS["amazon-bedrock"].getModel
\* A model id and a region are texts made of words and of the separators "."
\* and "-", one token each: "eu-central-1" is <<"eu", "-", "central", "-", "1">>.

\* text.startsWith(prefix)
StartsWith(text, prefix) ==
    Len(prefix) <= Len(text) /\ SubSeq(text, 1, Len(prefix)) = prefix

\* text.includes(part)
Includes(text, part) ==
    \E i \in 0..(Len(text) - Len(part)) : SubSeq(text, i + 1, i + Len(part)) = part

\* text.split("-")[0]
RECURSIVE SplitDashFirst(_)
SplitDashFirst(text) ==
    IF text = <<>> \/ Head(text) = "-" THEN <<>>
    ELSE <<Head(text)>> \o SplitDashFirst(Tail(text))

\* `${regionPrefix}.${modelID}`
Prefixed(regionPrefix, modelID) == <<regionPrefix, ".">> \o modelID

\* the families of models the loader names
Family(words) ==
    CASE words = "nova-micro" -> <<"nova", "-", "micro">>
      [] words = "nova-lite" -> <<"nova", "-", "lite">>
      [] words = "nova-pro" -> <<"nova", "-", "pro">>
      [] words = "nova-premier" -> <<"nova", "-", "premier">>
      [] words = "claude" -> <<"claude">>
      [] words = "deepseek" -> <<"deepseek">>
      [] words = "llama3" -> <<"llama3">>
      [] words = "pixtral" -> <<"pixtral">>
      [] words = "anthropic.claude-sonnet-4-5" ->
             <<"anthropic", ".", "claude", "-", "sonnet", "-", "4", "-", "5">>
      [] words = "anthropic.claude-haiku" -> <<"anthropic", ".", "claude", "-", "haiku">>

\* [..].some((m) => modelID.includes(m))
SomeIncluded(modelID, families) == \E f \in families : Includes(modelID, Family(f))

\* a region, from its words
RegionOf(a, b, c) == <<a, "-", b, "-", c>>

\* the regions the loader can be given
Regions ==
    {RegionOf("us", "east", "1"), RegionOf("us", "west", "2"),
     <<"us", "-", "gov", "-", "west", "-", "1">>, <<"us", "-", "gov", "-", "east", "-", "1">>,
     RegionOf("eu", "central", "1"), RegionOf("eu", "west", "1"),
     RegionOf("eu", "central", "2"),
     RegionOf("ap", "southeast", "2"), RegionOf("ap", "southeast", "4"),
     RegionOf("ap", "northeast", "1"), RegionOf("ap", "south", "1"),
     RegionOf("ca", "central", "1")}

\* the regions of Europe the loader lists
EuRegions ==
    {RegionOf("eu", "west", "1"), RegionOf("eu", "west", "2"), RegionOf("eu", "west", "3"),
     RegionOf("eu", "north", "1"), RegionOf("eu", "central", "1"),
     RegionOf("eu", "south", "1"), RegionOf("eu", "south", "2")}

\* the model ids the loader can be given
ModelIDs ==
    {<<"anthropic", ".", "claude", "-", "3", "-", "5", "-", "sonnet">>,
     <<"anthropic", ".", "claude", "-", "sonnet", "-", "4", "-", "5">>,
     <<"anthropic", ".", "claude", "-", "haiku", "-", "4", "-", "5">>,
     <<"amazon", ".", "nova", "-", "pro">>,
     <<"amazon", ".", "nova", "-", "premier">>,
     <<"amazon", ".", "nova", "-", "lite">>,
     <<"meta", ".", "llama3", "-", "70b">>,
     <<"mistral", ".", "pixtral", "-", "large">>,
     <<"deepseek", ".", "r1">>,
     <<"cohere", ".", "command", "-", "r">>,
     <<"global", ".", "anthropic", ".", "claude", "-", "sonnet", "-", "4", "-", "5">>,
     <<"jp", ".", "anthropic", ".", "claude", "-", "haiku", "-", "4", "-", "5">>,
     <<"us", ".", "anthropic", ".", "claude", "-", "3", "-", "5", "-", "sonnet">>}

\* the region the loader falls back on
DefaultRegion(configRegion, envRegion) ==
    IF configRegion # None THEN configRegion[1]
    ELSE IF envRegion # None THEN envRegion[1]
    ELSE RegionOf("us", "east", "1")

\* the region getModel resolves the id for
RegionFor(b) ==
    IF b.region # None THEN b.region[1] ELSE DefaultRegion(b.configRegion, b.envRegion)

\* getModel that prefixes in the GovCloud regions as well
BedrockModelID_GovCloudToo(modelID, region) ==
    IF StartsWith(modelID, <<"global", ".">>) \/ StartsWith(modelID, <<"jp", ".">>)
    THEN modelID
    ELSE LET regionPrefix == SplitDashFirst(region)
         IN CASE regionPrefix = <<"us">> ->
                   IF SomeIncluded(modelID, {"nova-micro", "nova-lite", "nova-pro",
                                             "nova-premier", "claude", "deepseek"})
                   THEN Prefixed("us", modelID) ELSE modelID
              [] regionPrefix = <<"eu">> ->
                   IF (\E r \in EuRegions : Includes(region, r))
                        /\ SomeIncluded(modelID, {"claude", "nova-lite", "nova-micro",
                                                  "llama3", "pixtral"})
                   THEN Prefixed("eu", modelID) ELSE modelID
              [] regionPrefix = <<"ap">> ->
                   IF region \in {RegionOf("ap", "southeast", "2"),
                                  RegionOf("ap", "southeast", "4")}
                        /\ SomeIncluded(modelID, {"anthropic.claude-sonnet-4-5",
                                                  "anthropic.claude-haiku"})
                   THEN Prefixed("au", modelID)
                   ELSE IF region = RegionOf("ap", "northeast", "1")
                   THEN IF SomeIncluded(modelID, {"claude", "nova-lite", "nova-micro",
                                                  "nova-pro"})
                        THEN Prefixed("jp", modelID) ELSE modelID
                   ELSE IF SomeIncluded(modelID, {"claude", "nova-lite", "nova-micro",
                                                  "nova-pro"})
                        THEN Prefixed("apac", modelID) ELSE modelID
              [] OTHER -> modelID

\* getModel: the model id handed to sdk.languageModel
BedrockModelID(modelID, region) ==
    IF StartsWith(modelID, <<"global", ".">>) \/ StartsWith(modelID, <<"jp", ".">>)
    THEN modelID
    ELSE LET regionPrefix == SplitDashFirst(region)
         IN CASE regionPrefix = <<"us">> ->
                   IF SomeIncluded(modelID, {"nova-micro", "nova-lite", "nova-pro",
                                             "nova-premier", "claude", "deepseek"})
                        /\ ~StartsWith(region, <<"us", "-", "gov">>)
                   THEN Prefixed("us", modelID) ELSE modelID
              [] regionPrefix = <<"eu">> ->
                   IF (\E r \in EuRegions : Includes(region, r))
                        /\ SomeIncluded(modelID, {"claude", "nova-lite", "nova-micro",
                                                  "llama3", "pixtral"})
                   THEN Prefixed("eu", modelID) ELSE modelID
              [] regionPrefix = <<"ap">> ->
                   IF region \in {RegionOf("ap", "southeast", "2"),
                                  RegionOf("ap", "southeast", "4")}
                        /\ SomeIncluded(modelID, {"anthropic.claude-sonnet-4-5",
                                                  "anthropic.claude-haiku"})
                   THEN Prefixed("au", modelID)
                   ELSE IF region = RegionOf("ap", "northeast", "1")
                   THEN IF SomeIncluded(modelID, {"claude", "nova-lite", "nova-micro",
                                                  "nova-pro"})
                        THEN Prefixed("jp", modelID) ELSE modelID
                   ELSE IF SomeIncluded(modelID, {"claude", "nova-lite", "nova-micro",
                                                  "nova-pro"})
                        THEN Prefixed("apac", modelID) ELSE modelID
              [] OTHER -> modelID

\* the loader ran with a region from config and one from the environment, or
\* without; getModel is to be called with a model id and options
BedrockInit ==
    bedrock \in [modelID : ModelIDs,
                 region : {None} \cup {Some(r) : r \in Regions},
                 configRegion : {None, Some(RegionOf("eu", "central", "1"))},
                 envRegion : {None, Some(RegionOf("ap", "northeast", "1"))},
                 languageModel : {None}]

\* getModel(sdk, modelID, options)
BedrockGetModel ==
    /\ bedrock.languageModel = None
    /\ bedrock' = [bedrock EXCEPT
                     !.languageModel = Some(BedrockModelID(bedrock.modelID, RegionFor(bedrock)))]
    /\ UNCHANGED notBedrock

BedrockNext == BedrockGetModel

BedrockIdle == bedrock = <<>>

\* ------------------------------------------- McpAuth and McpLogoutCommand
\* The credential store is the document mcp-auth.json: a record for each
\* server name.  A record has tokens, clientInfo, or both.

ServerNames == {"serverA", "serverB"}
AuthEntries ==
    {[tokens |-> Some("t1"), clientInfo |-> None],
     [tokens |-> None, clientInfo |-> Some("c1")],
     [tokens |-> Some("t2"), clientInfo |-> Some("c1")]}

\* an operation of the store or the command, with what it was given and
\* what it gave back
AuthCall(op, name, record, found, ret) ==
    [op |-> op, name |-> name, record |-> record, found |-> found, ret |-> ret]
NoAuthCall == AuthCall("init", "", None, FALSE, None)

AuthInit ==
    /\ mcpAuth = EmptyMap
    /\ authLast = NoAuthCall

\* McpAuth.get
McpAuthGet(name) ==
    /\ authLast' = AuthCall("get", name, None, Has(mcpAuth, name),
                            IF Has(mcpAuth, name) THEN Some(mcpAuth[name]) ELSE None)
    /\ UNCHANGED <<mcpAuth, notAuth>>

\* McpAuth.all
McpAuthAll ==
    /\ authLast' = AuthCall("all", "", None, mcpAuth # EmptyMap, Some(mcpAuth))
    /\ UNCHANGED <<mcpAuth, notAuth>>

\* McpAuth.set
McpAuthSet(name, record) ==
    /\ mcpAuth' = Put(mcpAuth, name, record)
    /\ authLast' = AuthCall("set", name, Some(record), Has(mcpAuth, name), None)
    /\ UNCHANGED notAuth

\* the store after a remove that drops every record
AfterRemove_DropsAll(credentials, name) == EmptyMap

\* the store after McpAuth.remove
AfterRemove(credentials, name) == Del(credentials, name)

\* McpAuth.remove
McpAuthRemove(name) ==
    /\ mcpAuth' = AfterRemove(mcpAuth, name)
    /\ authLast' = AuthCall("remove", name, None, Has(mcpAuth, name), None)
    /\ UNCHANGED notAuth

\* McpLogoutCommand: the name is given, or selected among the stored ones
\* unless the prompt is cancelled
McpLogout(name, selected) ==
    LET credentials == mcpAuth
    IN /\ IF DOMAIN credentials = {}
          THEN /\ authLast' = AuthCall("logout", "", None, FALSE, Some("none stored"))
               /\ UNCHANGED mcpAuth
          ELSE IF name = None /\ selected = None
          THEN /\ authLast' = AuthCall("logout", "", None, FALSE, Some("CancelledError"))
               /\ UNCHANGED mcpAuth
          ELSE LET serverName == IF name # None THEN name[1] ELSE selected[1]
               IN /\ name = None => Has(credentials, serverName)
                  /\ IF ~Has(credentials, serverName)
                     THEN /\ authLast' = AuthCall("logout", serverName, None, FALSE,
                                                  Some("not found"))
                          /\ UNCHANGED mcpAuth
                     ELSE /\ mcpAuth' = AfterRemove(mcpAuth, serverName)
                          /\ authLast' = AuthCall("logout", serverName, None, TRUE,
                                                  Some("removed"))
       /\ UNCHANGED notAuth

AuthNext ==
    \/ \E n \in ServerNames : McpAuthGet(n)
    \/ McpAuthAll
    \/ \E n \in ServerNames, r \in AuthEntries : McpAuthSet(n, r)
    \/ \E n \in ServerNames : McpAuthRemove(n)
    \/ \E n, c \in {None} \cup {Some(x) : x \in ServerNames} : McpLogout(n, c)

AuthIdle ==
    /\ mcpAuth = <<>>
    /\ authLast = <<>>

\* ------------------------------------------- POST /tui/select-session
\* A session id is a text of words and "_" separators, one token each.

\* a session id is well formed when it starts with "ses"
IsSessionID(id) == StartsWith(id, <<"ses">>)

SessionIDs == {<<"ses", "_", n>> : n \in {"1", "2", "3", "4"}}
RequestIDs ==
    SessionIDs \cup {<<"ses", "_", "nonexistent123">>, <<"invalid", "_", "session", "_", "id">>}

TuiInit == tui = [sessions |-> {}, response |-> None]

\* Session.create
SessionCreate(id) ==
    /\ id \notin tui.sessions
    /\ tui' = [tui EXCEPT !.sessions = @ \cup {id}]
    /\ UNCHANGED notTui

\* Session.remove
SessionRemove(id) ==
    /\ id \in tui.sessions
    /\ tui' = [tui EXCEPT !.sessions = @ \ {id}]
    /\ UNCHANGED notTui

\* the answer that does not look the session up
Answer_NoLookup(sessions, sessionID) ==
    IF ~IsSessionID(sessionID) THEN [sessionID |-> sessionID, status |-> 400, body |-> None]
    ELSE [sessionID |-> sessionID, status |-> 200, body |-> Some(TRUE)]

\* the answer to POST /tui/select-session with { sessionID }
Answer(sessions, sessionID) ==
    IF ~IsSessionID(sessionID) THEN [sessionID |-> sessionID, status |-> 400, body |-> None]
    ELSE IF sessionID \notin sessions
    THEN [sessionID |-> sessionID, status |-> 404, body |-> None]
    ELSE [sessionID |-> sessionID, status |-> 200, body |-> Some(TRUE)]

\* app.request("/tui/select-session", ...)
SelectSession(sessionID) ==
    /\ tui' = [tui EXCEPT !.response = Some(Answer(tui.sessions, sessionID))]
    /\ UNCHANGED notTui

TuiNext ==
    \/ \E id \in SessionIDs : SessionCreate(id)
    \/ \E id \in SessionIDs : SessionRemove(id)
    \/ \E id \in RequestIDs : SelectSession(id)

TuiIdle == tui = <<>>

\* ------------------------------------------- Provider.defaultModel
\* A model id and a provider id are texts of tokens, so that includes and
\* split are computed on them.  A provider of the registry is kept as its id
\* and the ids of its models (the id of a model is its key in the map).

\* the ids of the models, in ascending order of their strings
ModelIdOrder ==
    << <<"claude-sonnet-4", "-", "5">>, <<"claude-sonnet-4", "-", "latest">>,
       <<"gemini-3-pro">>, <<"gpt-5">>, <<"gpt-5", "-", "mini">>, <<"llama">> >>
SortedModelIDs == {ModelIdOrder[i] : i \in DOMAIN ModelIdOrder}

\* a < b on two of these ids
IdLess(a, b) ==
    \E i, j \in DOMAIN ModelIdOrder : ModelIdOrder[i] = a /\ ModelIdOrder[j] = b /\ i < j

priority == << <<"gpt-5">>, <<"claude-sonnet-4">>, <<"big-pickle">>, <<"gemini-3-pro">> >>

\* priority.findIndex((filter) => id.includes(filter))
PriorityIndex(id) ==
    LET hits == {i \in DOMAIN priority : Includes(id, priority[i])}
    IN IF hits = {} THEN -1 ELSE (CHOOSE i \in hits : \A j \in hits : i <= j) - 1

\* model.id.includes("latest") ? 0 : 1
LatestKey(id) == IF Includes(id, <<"latest">>) THEN 0 ELSE 1

\* the order of sortBy: the index in priority descending, then "latest"
\* first, then the id descending
SortsBefore(a, b) ==
    IF PriorityIndex(a) # PriorityIndex(b) THEN PriorityIndex(a) > PriorityIndex(b)
    ELSE IF LatestKey(a) # LatestKey(b) THEN LatestKey(a) < LatestKey(b)
    ELSE IdLess(b, a)

\* Provider.sort(models), on the ids of the models
RECURSIVE sort(_)
sort(models) ==
    IF models = {} THEN <<>>
    ELSE LET top == CHOOSE a \in models : \A b \in models \ {a} : SortsBefore(a, b)
         IN <<top>> \o sort(models \ {top})

\* model.split("/"): what comes before the first "/" and what comes after it
RECURSIVE BeforeSlash(_)
BeforeSlash(text) ==
    IF text = <<>> \/ Head(text) = "/" THEN <<>>
    ELSE <<Head(text)>> \o BeforeSlash(Tail(text))
RECURSIVE AfterSlash(_)
AfterSlash(text) ==
    IF text = <<>> THEN <<>>
    ELSE IF Head(text) = "/" THEN Tail(text) ELSE AfterSlash(Tail(text))

\* parseModel
parseModel(model) ==
    [providerID |-> BeforeSlash(model), modelID |-> AfterSlash(model), thrown |-> None]

ThrowError(message) == [providerID |-> <<>>, modelID |-> <<>>, thrown |-> Some(message)]

\* x.find((p) => !cfg.provider || Object.keys(cfg.provider).includes(p.id))
RECURSIVE FindProvider(_, _)
FindProvider(list, cfg) ==
    IF list = <<>> THEN None
    ELSE IF cfg.provider = None
            \/ \E i \in DOMAIN cfg.provider[1] : cfg.provider[1][i] = Head(list).id
    THEN Some(Head(list))
    ELSE FindProvider(Tail(list), cfg)

\* defaultModel, on the config and Object.values(await list())
defaultModel(cfg, list) ==
    IF cfg.model # None THEN parseModel(cfg.model[1])
    ELSE LET provider == FindProvider(list, cfg)
         IN IF provider = None THEN ThrowError("no providers found")
            ELSE LET sorted == sort(provider[1].models)
                 IN IF sorted = <<>> THEN ThrowError("no models found")
                    ELSE [providerID |-> provider[1].id, modelID |-> sorted[1],
                          thrown |-> None]

\* the ids of the providers, the models a provider of the registry can have
\* (the build leaves no provider without models), the registries and the
\* configs
ListedIDs == {<<"a">>, <<"b">>, <<"c">>}
ModelSets == {ms \in SUBSET SortedModelIDs : Cardinality(ms) \in {1, 2}}
Distinct(q) == \A i, j \in DOMAIN q : i # j => q[i] # q[j]
Listings ==
    {l \in SeqsUpTo([id : ListedIDs, models : ModelSets], MaxListed) :
        Distinct([i \in DOMAIN l |-> l[i].id])}
DefaultConfigs ==
    [model : {None, Some(<<"a", "/", "gpt-5">>), Some(<<"c", "/", "x", "/", "y">>)},
     provider : {None} \cup {Some(q) : q \in {k \in SeqsUpTo(ListedIDs, MaxListed) : Distinct(k)}}]

DefaultInit ==
    dflt \in [cfg : DefaultConfigs, list : Listings, ret : {None}]

\* a call of Provider.defaultModel()
DefaultModel ==
    /\ dflt.ret = None
    /\ dflt' = [dflt EXCEPT !.ret = Some(defaultModel(dflt.cfg, dflt.list))]
    /\ UNCHANGED <<loader, file, notCfg>>

DefaultNext == DefaultModel

\* --------------------------------------------- CUSTOM_LOADERS.ollama
\* input.models is kept as the sequence of its models in insertion order
\* (the key of a model is its id); of a model the id, the family,
\* capabilities.toolcall and limit.context are kept.  The base URL of the
\* server is left out: the loader copies it into the models it adds and
\* nothing else depends on it.  A field of a payload item is absent or a
\* string.
OModel(id, family, toolcall, context) ==
    [id |-> id, family |-> family, toolcall |-> toolcall, context |-> context]

HasModel(models, id) == \E i \in DOMAIN models : models[i].id = id

\* providerCfg?.options?.toolCallMode === "prompt" || ... of cfg.provider.ollama
promptToolCall(providerCfg) ==
    /\ providerCfg # None
    /\ \/ providerCfg[1].toolCallMode = Some("prompt")
       \/ providerCfg[1].promptToolCall = Some(TRUE)
       \/ providerCfg[1].toolcall = Some("prompt")

\* the loop over the models in prompt mode, which is left out
MarkToolcall_Never(models, prompt) == models

\* if (promptToolCall) for (const model of Object.values(input.models))
\*   model.capabilities.toolcall = true
MarkToolcall(models, prompt) ==
    IF prompt THEN [i \in DOMAIN models |-> [models[i] EXCEPT !.toolcall = TRUE]]
    ELSE models

\* extractModelNames: the list a payload holds
ListOf(payload) ==
    IF payload.shape \in {"array", "models", "data"} THEN payload.list ELSE <<>>

\* extractModelNames: the name an item of the list gives, if it gives one
NameOf(item) ==
    IF item.kind = "string" THEN item.value
    ELSE IF item.name # None THEN item.name
    ELSE IF item.model # None THEN item.model
    ELSE item.id

\* Array.from(new Set(out))
RECURSIVE Unique(_, _)
Unique(out, seen) ==
    IF out = <<>> THEN <<>>
    ELSE IF Head(out) \in seen THEN Unique(Tail(out), seen)
    ELSE <<Head(out)>> \o Unique(Tail(out), seen \cup {Head(out)})

\* extractModelNames
RECURSIVE PushNames(_)
PushNames(list) ==
    IF list = <<>> THEN <<>>
    ELSE LET item == Head(list)
             name == NameOf(item)
         IN IF item.kind = "string" THEN <<name[1]>> \o PushNames(Tail(list))
            ELSE IF name # None /\ name[1] # "" THEN <<name[1]>> \o PushNames(Tail(list))
            ELSE PushNames(Tail(list))
extractModelNames(payload) ==
    SelectSeq(Unique(PushNames(ListOf(payload)), {}), LAMBDA name : name # "")

\* the names discovered: none when fetch rejects, when the response is not
\* ok and when its text is not JSON
Discovered(response) ==
    IF response.rejects THEN <<>>
    ELSE IF ~response.ok THEN <<>>
    ELSE IF response.payload = None THEN <<>>
    ELSE extractModelNames(response.payload[1])

\* what the models the loader adds take from Object.values(input.models)[0]
TemplateToolcall(models) == IF models = <<>> THEN FALSE ELSE models[1].toolcall
TemplateContext(models) == IF models = <<>> THEN 16384 ELSE models[1].context

\* the model the loader makes for an id
Synthesized(modelID, template, prompt) ==
    OModel(modelID, "ollama",
           IF prompt THEN TRUE ELSE TemplateToolcall(template), TemplateContext(template))

\* for (const modelID of discovered)
RECURSIVE AddDiscovered(_, _, _, _)
AddDiscovered(discovered, models, template, prompt) ==
    IF discovered = <<>> THEN models
    ELSE IF HasModel(models, Head(discovered))
    THEN AddDiscovered(Tail(discovered), models, template, prompt)
    ELSE AddDiscovered(Tail(discovered),
                       Append(models, Synthesized(Head(discovered), template, prompt)),
                       template, prompt)

\* fallbackModelId
FallbackModelId(providerCfg) ==
    IF providerCfg # None /\ providerCfg[1].fallbackModel # None
         /\ providerCfg[1].fallbackModel[1].type = "string"
    THEN providerCfg[1].fallbackModel[1].value
    ELSE "llama3.1:8b-instruct"

\* if (Object.keys(input.models).length === 0)
AddFallback(models, template, providerCfg, prompt) ==
    IF models = <<>>
    THEN <<Synthesized(FallbackModelId(providerCfg), template, prompt)>>
    ELSE models

\* input.models after the loader, called with the models, the config of the
\* provider and the response of the tags endpoint
OllamaModels(models, providerCfg, response) ==
    LET prompt == promptToolCall(providerCfg)
        marked == MarkToolcall(models, prompt)
        added == AddDiscovered(Discovered(response), marked, marked, prompt)
    IN AddFallback(added, marked, providerCfg, prompt)

\* cfg.provider.ollama.options, the items of a payload, the payloads and the
\* responses, and the models the catalog can hold for ollama
OllamaConfigs ==
    {None} \cup
    {Some(o) : o \in [toolCallMode : {None, Some("prompt"), Some("native")},
                      promptToolCall : {None, Some(TRUE)},
                      toolcall : {None, Some("prompt")},
                      fallbackModel : {None, Some([type |-> "string", value |-> "fb"]),
                                       Some([type |-> "number", value |-> "7"])}]}
StringItem(value) ==
    [kind |-> "string", value |-> Some(value), name |-> None, model |-> None, id |-> None]
ObjectItem(name, model, id) ==
    [kind |-> "object", value |-> None, name |-> name, model |-> model, id |-> id]
Items ==
    {StringItem("m1"), StringItem(""), ObjectItem(Some("m2"), None, None),
     ObjectItem(None, Some("m1"), Some("m3")), ObjectItem(None, None, Some("m3")),
     ObjectItem(Some(""), Some("m2"), None), ObjectItem(None, None, None)}
Payloads ==
    [shape : {"array", "models", "data", "other"}, list : SeqsUpTo(Items, MaxItems)]
Responses ==
    {[rejects |-> TRUE, ok |-> FALSE, payload |-> None]}
    \cup [rejects : {FALSE}, ok : BOOLEAN, payload : {None} \cup {Some(x) : x \in Payloads}]
OllamaCatalogs ==
    {<<>>,
     <<OModel("m1", "llama", FALSE, 8192)>>,
     <<OModel("m4", "qwen", TRUE, 32768), OModel("m1", "llama", FALSE, 8192)>>}

LoaderInit ==
    loader \in [models : OllamaCatalogs, providerCfg : OllamaConfigs, response : Responses,
                before : {None}]

\* CUSTOM_LOADERS.ollama(input), as far as it changes input.models
OllamaLoader ==
    /\ loader.before = None
    /\ loader' = [loader EXCEPT
                     !.before = Some(loader.models),
                     !.models = OllamaModels(loader.models, loader.providerCfg,
                                             loader.response)]
    /\ UNCHANGED <<dflt, file, notCfg>>

LoaderNext == OllamaLoader

\* ------------------------------ upsertMcpIntoFile, upsertMcpsIntoFile
\* A JSON value is kept with its type: a string, null, an array, or an
\* object whose entries are kept by name (an MCP entry is kept as a name
\* that stands for the whole Config.Mcp object).  The file is absent (or
\* blank), not JSONC, a value that is not an object, or an object with its
\* top-level keys.
JString(v) == [type |-> "string", str |-> v, obj |-> EmptyMap]
JNull == [type |-> "null", str |-> "", obj |-> EmptyMap]
JArray == [type |-> "array", str |-> "", obj |-> EmptyMap]
JObject(map) == [type |-> "object", str |-> "", obj |-> map]

\* !value of a value that is there
Falsy(value) == value.type = "null" \/ (value.type = "string" /\ value.str = "")

SchemaURL == JString("https://opencode.ai/config.json")

\* readJsoncObject: the object read, or the error thrown
readJsoncObject(content) ==
    IF content.kind = "invalid" THEN [thrown |-> Some("Invalid JSONC"), data |-> EmptyMap]
    ELSE IF content.kind = "object" THEN [thrown |-> None, data |-> content.top]
    ELSE [thrown |-> None, data |-> EmptyMap]

\* existingMcp && typeof existingMcp === "object" && !Array.isArray(existingMcp)
\*   ? existingMcp : {}
CurrentMcp(existing) ==
    IF Has(existing, "mcp") /\ existing["mcp"].type = "object" THEN existing["mcp"].obj
    ELSE EmptyMap

\* the object written that holds $schema and mcp alone
Updated_DropsOthers(existing, nextMcp) ==
    ("$schema" :> SchemaURL) @@ ("mcp" :> JObject(nextMcp))

\* { ...existing }, with $schema when it has none, and with the new mcp
Updated(existing, nextMcp) ==
    LET withSchema == IF ~Has(existing, "$schema") \/ Falsy(existing["$schema"])
                      THEN Put(existing, "$schema", SchemaURL) ELSE existing
    IN Put(withSchema, "mcp", JObject(nextMcp))

\* what a call leaves: the file, what it returned or threw, whether it wrote
Outcome(content, written, thrown) ==
    [content |-> content, written |-> written, thrown |-> thrown]
Wrote(data) == Outcome([kind |-> "object", top |-> data], TRUE, None)

\* upsertMcpIntoFile({ filepath, name, entry }), with the answer to the
\* prompt when there is one
upsertMcpIntoFile(content, name, entry, answer) ==
    LET read == readJsoncObject(content)
        mcp == CurrentMcp(read.data)
    IN IF read.thrown # None THEN Outcome(content, FALSE, read.thrown)
       ELSE IF Has(mcp, name) /\ answer = "cancel"
       THEN Outcome(content, FALSE, Some("CancelledError"))
       ELSE IF Has(mcp, name) /\ answer = "no" THEN Outcome(content, FALSE, None)
       ELSE Wrote(Updated(read.data, Put(mcp, name, entry)))

\* the entries upsertMcpsIntoFile asks about, and the ones it skips
Prompted(mcp, name, overwrite, tty) == Has(mcp, name) /\ ~overwrite /\ tty
Skipped(mcp, name, overwrite, tty, answers) ==
    Has(mcp, name) /\ ~overwrite /\ (~tty \/ answers[name] = "no")

\* upsertMcpsIntoFile({ filepath, entries, overwrite }), with
\* process.stderr.isTTY and the answers to the prompts
upsertMcpsIntoFile(content, entries, overwrite, tty, answers) ==
    LET read == readJsoncObject(content)
        currentMcp == CurrentMcp(read.data)
        set == {name \in DOMAIN entries : ~Skipped(currentMcp, name, overwrite, tty, answers)}
        nextMcp == [name \in DOMAIN currentMcp \cup set |->
                       IF name \in set THEN entries[name] ELSE currentMcp[name]]
    IN IF read.thrown # None THEN Outcome(content, FALSE, read.thrown)
       ELSE IF \E name \in DOMAIN entries :
                   Prompted(currentMcp, name, overwrite, tty) /\ answers[name] = "cancel"
       THEN Outcome(content, FALSE, Some("CancelledError"))
       ELSE IF set = {} THEN Outcome(content, FALSE, None)
       ELSE Wrote(Updated(read.data, nextMcp))

\* the names of the servers, the entries a file holds and the ones a call
\* brings, the answers to a prompt, and the files there are at the start
ServerKeys == {"a", "b"}
PromptAnswers == {"yes", "no", "cancel"}
Maps(keys, values) == UNION {[ks -> values] : ks \in SUBSET keys}
FileMcps == {JArray} \cup {JObject(m) : m \in Maps(ServerKeys, {"e0"})}
FileTops ==
    {sc @@ th @@ mc :
        sc \in {EmptyMap, "$schema" :> JString(""), "$schema" :> JString("s")},
        th \in {EmptyMap, "theme" :> JString("t")},
        mc \in {EmptyMap} \cup {"mcp" :> v : v \in FileMcps}}
FileContents ==
    {[kind |-> k, top |-> EmptyMap] : k \in {"absent", "invalid", "other"}}
    \cup {[kind |-> "object", top |-> t] : t \in FileTops}

NoUpsert ==
    [op |-> "none", entries |-> EmptyMap, overwrite |-> FALSE, tty |-> FALSE,
     answers |-> [n \in ServerKeys |-> "no"], written |-> FALSE, thrown |-> None]

FileInit == file \in [content : FileContents, last : {NoUpsert}]

\* mcp add: upsertMcpIntoFile
UpsertMcp(name, entry, answer) ==
    LET out == upsertMcpIntoFile(file.content, name, entry, answer)
    IN /\ file' = [content |-> out.content,
                   last |-> [op |-> "add", entries |-> name :> entry, overwrite |-> FALSE,
                             tty |-> TRUE, answers |-> [n \in ServerKeys |-> answer],
                             written |-> out.written, thrown |-> out.thrown]]
       /\ UNCHANGED <<dflt, loader, notCfg>>

\* mcp import: upsertMcpsIntoFile
UpsertMcps(entries, overwrite, tty, answers) ==
    LET out == upsertMcpsIntoFile(file.content, entries, overwrite, tty, answers)
    IN /\ file' = [content |-> out.content,
                   last |-> [op |-> "import", entries |-> entries, overwrite |-> overwrite,
                             tty |-> tty, answers |-> answers,
                             written |-> out.written, thrown |-> out.thrown]]
       /\ UNCHANGED <<dflt, loader, notCfg>>

FileNext ==
    \/ \E name \in ServerKeys, answer \in PromptAnswers : UpsertMcp(name, "e1", answer)
    \/ \E entries \in Maps(ServerKeys, {"e2"}), overwrite \in BOOLEAN, tty \in BOOLEAN,
          answers \in [ServerKeys -> PromptAnswers] :
           UpsertMcps(entries, overwrite, tty, answers)

\* no call of defaultModel or the ollama loader, no write of a config file
DefaultIdle == dflt = <<>>
LoaderIdle == loader = <<>>
FileIdle == file = <<>>
CfgIdle == DefaultIdle /\ LoaderIdle /\ FileIdle

\* no call of getModel, getLanguage or the bedrock loader, no use of the
\* credential store or the select-session route
OthersIdle == LanguageIdle /\ BedrockIdle /\ AuthIdle /\ TuiIdle /\ CfgIdle

\* the Pty multiplexer
Init == PtyInit /\ StreamIdle /\ ProviderIdle /\ OthersIdle
Spec == Init /\ [][PtyNext]_vars

\* one doStream call
InitStream == StreamInit /\ PtyInit /\ ProviderIdle /\ OthersIdle
SpecStream == InitStream /\ [][StreamNext]_vars

\* one build of the Provider state
InitProvider == ProviderInit /\ PtyInit /\ StreamIdle /\ OthersIdle
SpecProvider == InitProvider /\ [][ProviderNext]_vars

\* what none of the specifications below runs
RestIdle == PtyInit /\ StreamIdle /\ ProviderIdle /\ CfgIdle

\* calls of getLanguage, overlapping or not
InitLanguage == LanguageInit /\ RestIdle /\ BedrockIdle /\ AuthIdle /\ TuiIdle
SpecLanguage == InitLanguage /\ [][LanguageNext]_vars

\* calls of getModel
InitLookup == LookupInit /\ RestIdle /\ BedrockIdle /\ AuthIdle /\ TuiIdle
SpecLookup == InitLookup /\ [][LookupNext]_vars

\* one call of the getModel of the amazon-bedrock loader
InitBedrock == BedrockInit /\ RestIdle /\ LanguageIdle /\ AuthIdle /\ TuiIdle
SpecBedrock == InitBedrock /\ [][BedrockNext]_vars

\* the credential store and the logout command
InitAuth == AuthInit /\ RestIdle /\ LanguageIdle /\ BedrockIdle /\ TuiIdle
SpecAuth == InitAuth /\ [][AuthNext]_vars

\* the select-session route
InitTui == TuiInit /\ RestIdle /\ LanguageIdle /\ BedrockIdle /\ AuthIdle
SpecTui == InitTui /\ [][TuiNext]_vars

\* Provider.defaultModel
InitDefault ==
    /\ DefaultInit /\ LoaderIdle /\ FileIdle
    /\ PtyInit /\ StreamIdle /\ ProviderIdle
    /\ LanguageIdle /\ BedrockIdle /\ AuthIdle /\ TuiIdle
SpecDefault == InitDefault /\ [][DefaultNext]_vars

\* the ollama loader
InitLoader ==
    /\ LoaderInit /\ DefaultIdle /\ FileIdle
    /\ PtyInit /\ StreamIdle /\ ProviderIdle
    /\ LanguageIdle /\ BedrockIdle /\ AuthIdle /\ TuiIdle
SpecLoader == InitLoader /\ [][LoaderNext]_vars

\* the config file of mcp add and mcp import
InitFile ==
    /\ FileInit /\ DefaultIdle /\ LoaderIdle
    /\ PtyInit /\ StreamIdle /\ ProviderIdle
    /\ LanguageIdle /\ BedrockIdle /\ AuthIdle /\ TuiIdle
SpecFile == InitFile /\ [][FileNext]_vars

\* ------------------------------------------------------------------ claims
\* the events of one type published for a session id (exited, deleted)
EventsOf(type, id) ==
    {i \in DOMAIN bus : bus[i].type = type /\ bus[i].properties.id = id}

\* the session an event of the bus is about
EventId(e) ==
    IF e.type \in {"pty.exited", "pty.deleted"} THEN e.properties.id
    ELSE e.properties.info.id

\* a connect that returned handlers, on an open socket that is open still
Attached(w) == ws[w].handlers /\ ws[w].ready

\* two strings have a unit in common
Overlap(s, t) ==
    \E i \in DOMAIN s, j \in DOMAIN t : s[i].lo <= t[j].hi /\ t[j].lo <= s[i].hi

\* C1: the buffer of every session is at most BUFFER_LIMIT long, after every
\* callback and call.
C1_BufferBounded == \A id \in Created : StrLen(sess[id].buffer) <= BUFFER_LIMIT

\* the child wrote more than BUFFER_LIMIT and the buffer is full
C1_Witness ==
    \E id \in Created :
        proc[id].out > BUFFER_LIMIT /\ StrLen(sess[id].buffer) = BUFFER_LIMIT

\* C2: a sink that connect attached and that is open still has received the
\* buffer of the moment of the connect and then every unit the child wrote
\* since, in the child's order.
C2_BacklogThenLive ==
    \A w \in WS :
        Attached(w) =>
            ws[w].recv = Concat(ws[w].base, Units(ws[w].from, proc[ws[w].sess].out))

\* a sink that got a backlog and then live output
C2_Witness ==
    \E w \in WS :
        /\ Attached(w)
        /\ ws[w].base # <<>>
        /\ proc[ws[w].sess].out > ws[w].from

\* C3: a connect that returns handlers leaves the buffer empty; a sink
\* attached later has received nothing of what was replayed to an earlier
\* one; and two attached sinks have both received all the child wrote since
\* the later of them was attached.
C3_ReplayedOnce ==
    /\ (last.op = "connect" /\ last.ret = "handlers") => sess[last.id].buffer = <<>>
    /\ \A v \in WS, w \in WS :
           (v < w /\ ws[v].handlers /\ ws[w].handlers /\ ws[v].sess = ws[w].sess) =>
               /\ ~Overlap(ws[v].base, ws[w].recv)
               /\ (Attached(v) /\ Attached(w)) =>
                      LET new == Units(ws[w].from, proc[ws[w].sess].out)
                      IN /\ SliceLast(ws[v].recv, StrLen(new)) = new \/ new = <<>>
                         /\ SliceLast(ws[w].recv, StrLen(new)) = new \/ new = <<>>

\* the first sink replayed a backlog, a second was attached, the child wrote
C3_Witness ==
    \E v \in WS, w \in WS :
        /\ v < w /\ Attached(v) /\ Attached(w) /\ ws[v].sess = ws[w].sess
        /\ ws[v].base # <<>>
        /\ ws[v].from = ws[w].from
        /\ proc[ws[w].sess].out > ws[w].from

\* no sink was attached to the session of w before w
FirstAttached(w) == \A v \in WS : (v < w /\ ws[v].sess = ws[w].sess) => ~ws[v].handlers

\* C4: when the child wrote more than BUFFER_LIMIT before the first sink was
\* attached, the connect gives that sink the last BUFFER_LIMIT units of all
\* the child wrote.
C4_TrailingLimit ==
    (/\ last.op = "connect" /\ last.ret = "handlers"
     /\ ws[last.w].ready
     /\ FirstAttached(last.w)
     /\ ws[last.w].from > BUFFER_LIMIT)
    => ws[last.w].recv = Units(ws[last.w].from - BUFFER_LIMIT, ws[last.w].from)

C4_Witness ==
    /\ last.op = "connect" /\ last.ret = "handlers"
    /\ ws[last.w].ready
    /\ FirstAttached(last.w)
    /\ ws[last.w].from > BUFFER_LIMIT
    /\ StrLen(ws[last.w].recv) = BUFFER_LIMIT

\* C5: a session whose status is exited has no subscriber and no listener.
C5_ExitedIsEmpty ==
    \A id \in Created :
        sess[id].info.status = "exited" =>
            sess[id].subscribers = {} /\ sess[id].listeners = {}

\* C6: remove(id) of a session of the table kills the child, closes every
\* subscriber, deletes the entry and publishes pty.deleted, once; remove(id)
\* of an id that is not in the table changes nothing and publishes nothing.
C6_Remove ==
    [][\A id \in AnyId : (last'.op = "remove" /\ last'.id = id) =>
         IF id \in table
         THEN /\ proc'[id].kills = proc[id].kills + 1
              /\ \A w \in sess[id].subscribers :
                     ~ws'[w].ready /\ ws'[w].closes = ws[w].closes + 1
              /\ id \notin table'
              /\ bus' = Append(bus, [type |-> "pty.deleted", properties |-> [id |-> id]])
              /\ Cardinality(EventsOf("pty.deleted", id)') = 1
         ELSE UNCHANGED <<table, sess, proc, ws, bus>>]_vars

\* remove was called again for a session that remove had deleted
C6_Witness ==
    /\ last.op = "remove" /\ ~last.found
    /\ last.id \in Created
    /\ EventsOf("pty.deleted", last.id) # {}

\* C7: write, resize, update and remove with an id that is not in the table
\* return undefined, publish nothing and leave every session, child and sink
\* as it was.
C7_UnknownIdNoOp ==
    [][(last'.op \in {"write", "resize", "update", "remove"} /\ last'.id \notin table) =>
         /\ UNCHANGED <<table, sess, proc, ws, bus>>
         /\ last'.ret = Undefined]_vars

\* one of the four was called with an id of no session while a session exists
C7_Witness ==
    /\ last.op \in {"write", "resize", "update", "remove"}
    /\ ~last.found
    /\ table # {}

\* C8: once the child of a session has exited, the session's status is
\* exited, exactly one pty.exited with its id was published, carrying the
\* child's exit code, and neither get nor list returns the session; before,
\* no pty.exited with its id was published.
C8_Exit ==
    \A id \in Created :
        IF proc[id].exited
        THEN /\ sess[id].info.status = "exited"
             /\ Cardinality(EventsOf("pty.exited", id)) = 1
             /\ \A i \in EventsOf("pty.exited", id) :
                    bus[i].properties.exitCode = proc[id].exitCode
             /\ Get(id) = None
             /\ \A info \in List : info.id # id
        ELSE EventsOf("pty.exited", id) = {}

\* a child exited with code 1 while a sink was attached
C8_Witness ==
    \E id \in Created :
        /\ proc[id].exited /\ proc[id].exitCode = 1
        /\ \E w \in WS : ws[w].sess = id /\ ws[w].handlers

\* C9: cwdPinned of a session never goes from true to false.
C9_PinnedStays ==
    [][\A id \in Created : sess[id].cwdPinned => sess'[id].cwdPinned]_vars

\* a session created without cwd that a connect pinned, after the child
\* wrote again
C9_Witness ==
    \E id \in Created :
        /\ sess[id].cwdPinned
        /\ bus[1].properties.info.cwd = InstanceDirectory
        /\ last.op = "onData" /\ last.id = id

\* the places of the parts of one type in the stream
PartsOf(type) == {i \in DOMAIN parts : parts[i].type = type}

TextParts == PartsOf("text-start") \cup PartsOf("text-delta") \cup PartsOf("text-end")
ToolParts == PartsOf("tool-call")

\* C11: in prompt mode no text and no tool-call part is enqueued while the
\* response is read; when the stream of a response with a body is closed,
\* it ends either with one tool-call part for each call parsed from the
\* whole text, in their order, and a finish with reason tool-calls, and has
\* no text part, or with one text-start, one text-delta, one text-end and a
\* finish with reason stop, and has no tool-call part and no other text part.
C11_PromptModeSilent ==
    opts.shouldPromptToolCall =>
        /\ pc = "read" => TextParts = {} /\ ToolParts = {}
        /\ (pc = "closed" /\ opts.body) =>
               LET n == Len(parts)
                   k == Cardinality(ToolParts)
                   parsed == parsePromptToolCall(st.fullText)
               IN /\ parts[n].type = "finish"
                  /\ IF k > 0
                     THEN /\ TextParts = {}
                          /\ ToolParts = (n - k)..(n - 1)
                          /\ k = Len(parsed.calls)
                          /\ \A i \in 1..k :
                                 parts[n - k - 1 + i].data = <<i, parsed.calls[i]>>
                          /\ parts[n].data.finishReason = "tool-calls"
                     ELSE /\ n >= 4
                          /\ parts[n - 3].type = "text-start"
                          /\ parts[n - 2].type = "text-delta"
                          /\ parts[n - 1].type = "text-end"
                          /\ TextParts = (n - 3)..(n - 1)
                          /\ parsed.kind = "final"
                          /\ parts[n - 2].data = parsed.text
                          /\ parts[n].data.finishReason = "stop"

\* a prompt-mode stream read in two reads that closed with two tool-call parts
C11_Witness ==
    /\ opts.shouldPromptToolCall
    /\ pc = "closed"
    /\ st.reads = 2
    /\ Cardinality(ToolParts) = 2

\* C12: when the text of a prompt-mode reply is the instruction built for
\* the tool t, echoed, the closed stream has a tool-call part whose name is t.
C12_EchoRoundTrip ==
    (pc = "closed" /\ opts.shouldPromptToolCall /\ st.fullText = Echo) =>
        \E i \in ToolParts : parts[i].data[2].name = "t"

\* C13: when the caller's signal fires while the response is read, the
\* stream ends with a finish part whose finishReason is error.
C13_CancelFinishesWithError ==
    (pc = "errored" /\ err = Some([name |-> "AbortError"])) =>
        /\ parts # <<>>
        /\ parts[Len(parts)].type = "finish"
        /\ parts[Len(parts)].data.finishReason = "error"

\* C14: the error thrown for a response that is not ok is retryable exactly
\* when the status is at least 500 or is 429.
C14_RetryableIff ==
    pc = "thrown" =>
        (err[1].isRetryable <=> (err[1].statusCode >= 500 \/ err[1].statusCode = 429))

\* a credential of a provider: one of the environment variables it declares
\* is set, the auth store has a record of it, or a plugin names it
EnvCredential(p) ==
    Has(database, p) /\ \E i \in DOMAIN database[p].env : Has(inputs.env, database[p].env[i])
AuthCredential(p) == Has(inputs.auth, p)
PluginCredential(p) ==
    \E i \in DOMAIN inputs.plugins :
        inputs.plugins[i].auth # None /\ inputs.plugins[i].auth[1].provider = p
NoCredential(p) == ~EnvCredential(p) /\ ~AuthCredential(p) /\ ~PluginCredential(p)
Autoloads(p) == Has(inputs.loaders, p) /\ inputs.loaders[p].autoload

\* every id a provider can have in the builds that are checked
ProviderIDs == {"p", "c", "ollama", "owiseman"}

\* C15, as claimed: after the build, a provider that has no credential and
\* no loader with autoload is not in the registry.
C15_NoCredentialNotLoaded ==
    stage = "done" =>
        \A p \in ProviderIDs : (NoCredential(p) /\ ~Autoloads(p)) => ~Has(providers, p)

\* C15, amended: after the build, a provider that has no credential and no
\* loader with autoload, and that config.provider does not declare, is not
\* in the registry.
C15_NoCredentialNorConfig ==
    stage = "done" =>
        \A p \in ProviderIDs :
            (NoCredential(p) /\ ~Autoloads(p) /\ ~Has(inputs.config.provider, p))
                => ~Has(providers, p)

\* p is allowed, has an active model and a loader that does not autoload,
\* and is not in the registry for want of a credential
C15_Witness ==
    /\ stage = "done"
    /\ isProviderAllowed(inputs.config, "p")
    /\ inputs.modelsDev["p"].models["m"].status = "active"
    /\ Has(inputs.loaders, "p") /\ ~Autoloads("p")
    /\ NoCredential("p") /\ ~Has(inputs.config.provider, "p")
    /\ ~Has(providers, "p")

\* C16: after the build no provider of disabled_providers is in the
\* registry, and when enabled_providers is set every provider of the
\* registry is in it.
C16_DisabledEnabled ==
    stage = "done" =>
        \A p \in DOMAIN providers :
            /\ p \notin inputs.config.disabled_providers
            /\ inputs.config.enabled_providers # None => p \in inputs.config.enabled_providers[1]

\* enabled_providers is set and ollama, which loads itself, is left out,
\* while another provider is in the registry
C16_Witness ==
    /\ stage = "done"
    /\ inputs.config.enabled_providers # None
    /\ ~Disabled(inputs.config, "ollama")
    /\ ~Has(providers, "ollama")
    /\ Has(providers, "p")

\* C17: after the build no model of the registry is deprecated, none is
\* alpha unless the flag of experimental models is set, none is on the
\* blacklist config gives its provider, and each is on the whitelist when
\* config gives one; this for the models of the bundled catalog and for
\* those config added or changed.
C17_ModelsFiltered ==
    stage = "done" =>
        \A p \in DOMAIN providers : \A m \in DOMAIN providers[p].models :
            /\ providers[p].models[m].status # "deprecated"
            /\ providers[p].models[m].status = "alpha" => inputs.flag
            /\ Has(inputs.config.provider, p) =>
                   /\ inputs.config.provider[p].blacklist # None =>
                          m \notin inputs.config.provider[p].blacklist[1]
                   /\ inputs.config.provider[p].whitelist # None =>
                          m \in inputs.config.provider[p].whitelist[1]

\* config added a deprecated model x to p; p is in the registry without it
C17_Witness ==
    /\ stage = "done"
    /\ Has(providers, "p")
    /\ Has(inputs.config.provider, "p")
    /\ Has(inputs.config.provider["p"].models, "x")
    /\ inputs.config.provider["p"].models["x"].status = Some("deprecated")
    /\ ~Has(providers["p"].models, "x")

\* C18: after the build every provider of the registry has a model.
C18_NoEmptyProvider ==
    stage = "done" => \A p \in DOMAIN providers : DOMAIN providers[p].models # {}

\* p is allowed and has a key in the environment, its only model is
\* deprecated, and p is not in the registry
C18_Witness ==
    /\ stage = "done"
    /\ isProviderAllowed(inputs.config, "p")
    /\ EnvCredential("p")
    /\ DOMAIN database["p"].models = {"m"}
    /\ database["p"].models["m"].status = "deprecated"
    /\ ~Has(providers, "p")

\* C19: after the build no model of the registry has a variant that config
\* marks disabled: true for that model of that provider.
C19_NoDisabledVariant ==
    stage = "done" =>
        \A p \in DOMAIN providers : \A m \in DOMAIN providers[p].models :
            (Has(inputs.config.provider, p) /\ Has(inputs.config.provider[p].models, m)) =>
                \A v \in DOMAIN inputs.config.provider[p].models[m].variants :
                    inputs.config.provider[p].models[m].variants[v].disabled =>
                        v \notin providers[p].models[m].variants

\* config disables the generated variant high of the model m of p and adds
\* the variant extra; the registry has m with low and extra
C19_Witness ==
    /\ stage = "done"
    /\ Has(providers, "p") /\ Has(providers["p"].models, "m")
    /\ Has(inputs.config.provider, "p") /\ Has(inputs.config.provider["p"].models, "m")
    /\ "high" \in GeneratedVariants("m")
    /\ providers["p"].models["m"].variants = {"low", "extra"}

\* the calls of getLanguage made so far for a key of the handle cache
LanguageCalls(key) ==
    {t \in Tasks : task[t].fn = "getLanguage" /\ LanguageKey(t) = key}

\* the handles constructed for a key by the calls of a set
HandlesMade(key, by) ==
    {i \in DOMAIN made : made[i].kind = "language" /\ made[i].key = key /\ made[i].by \in by}

\* the keys getLanguage can be called with
LanguageKeys == {<<p, m>> : p \in DOMAIN Registry, m \in {"gpt-4", "llama3.1"}}

C22_FailedDriverDropped ==
    \A t \in Tasks :
        (task[t].thrown # None /\ task[t].thrown[1].name = "ProviderInitError") =>
            /\ task[t].thrown[1].providerID = task[t].providerID
            /\ ~Has(state.providers, task[t].providerID)
            /\ \A p \in DOMAIN Registry \ {task[t].providerID} :
                   Has(state.providers, p) /\ state.providers[p] = Registry[p]

\* C23: the ProviderModelNotFoundError getModel throws carries three
\* suggestions at most, and none when no target is matched with a score above
\* the threshold; the registry is as it was.
C23_Suggestions ==
    \A t \in Tasks :
        (task[t].fn = "getModel" /\ task[t].thrown # None) =>
            LET e == task[t].thrown[1]
                unknown == ~Has(Registry, e.providerID)
                query == IF unknown THEN e.providerID ELSE e.modelID
                targets == IF unknown THEN DOMAIN Registry
                           ELSE DOMAIN Registry[e.providerID].models
            IN /\ e.name = "ProviderModelNotFoundError"
               /\ Len(e.suggestions[1]) <= 3
               /\ (\A x \in targets : ~(fuzzy[<<query, x>>].matched
                                          /\ fuzzy[<<query, x>>].score > 0 - 10000))
                      => e.suggestions[1] = <<>>
               /\ \A i \in DOMAIN e.suggestions[1] : e.suggestions[1][i] \in targets
               /\ state.providers = Registry

\* the unknown model matches the four models of openai above the threshold,
\* and the error carries three of them
C23_Witness ==
    \E t \in Tasks :
        /\ task[t].fn = "getModel" /\ task[t].thrown # None
        /\ task[t].providerID = "openai"
        /\ \A x \in DOMAIN Registry["openai"].models :
               fuzzy[<<task[t].modelID, x>>].matched
                 /\ fuzzy[<<task[t].modelID, x>>].score > 0 - 10000
        /\ Len(task[t].thrown[1].suggestions[1]) = 3

\* the families of models that need a prefix, and the regions that require it
PrefixFamilies(prefix) ==
    CASE prefix = "us" -> {"nova-micro", "nova-lite", "nova-pro", "nova-premier", "claude",
                           "deepseek"}
      [] prefix = "eu" -> {"claude", "nova-lite", "nova-micro", "llama3", "pixtral"}
      [] prefix = "au" -> {"anthropic.claude-sonnet-4-5", "anthropic.claude-haiku"}
      [] prefix \in {"jp", "apac"} -> {"claude", "nova-lite", "nova-micro", "nova-pro"}
PrefixRegion(prefix, region) ==
    CASE prefix = "us" -> Head(region) = "us"
      [] prefix = "eu" -> region \in EuRegions
      [] prefix = "au" -> Head(region) = "ap" /\ region[3] = "southeast" /\ region[5] \in {"2", "4"}
      [] prefix = "jp" -> region = <<"ap", "-", "northeast", "-", "1">>
      [] prefix = "apac" -> Head(region) = "ap" /\ region # <<"ap", "-", "northeast", "-", "1">>

C25_StoreLaws ==
    [][\A n \in ServerNames :
         /\ (authLast'.op = "set" /\ authLast'.name = n) =>
                /\ Has(mcpAuth', n) /\ Some(mcpAuth'[n]) = authLast'.record
                /\ \A m \in ServerNames \ {n} :
                       /\ Has(mcpAuth', m) <=> Has(mcpAuth, m)
                       /\ Has(mcpAuth, m) => mcpAuth'[m] = mcpAuth[m]
         /\ (authLast'.op = "get" /\ authLast'.name = n) =>
                /\ authLast'.ret = IF Has(mcpAuth, n) THEN Some(mcpAuth[n]) ELSE None
                /\ mcpAuth' = mcpAuth
         /\ (authLast'.op \in {"remove", "logout"} /\ authLast'.name = n
               /\ (authLast'.op = "logout" => authLast'.found)) =>
                /\ ~Has(mcpAuth', n)
                /\ \A m \in ServerNames \ {n} :
                       /\ Has(mcpAuth', m) <=> Has(mcpAuth, m)
                       /\ Has(mcpAuth, m) => mcpAuth'[m] = mcpAuth[m]]_vars

\* the store had records for serverA and serverB; the remove of serverA
\* left the one of serverB alone
C25_Witness ==
    /\ authLast.op = "remove" /\ authLast.name = "serverA" /\ authLast.found
    /\ DOMAIN mcpAuth = {"serverB"}

\* C26: the route answers 200 with the body true when the session id names
\* a session there is, 404 when the id is well formed and names none, 400
\* when the id is not well formed.
C26_SelectSessionStatus ==
    [][(tui'.response # tui.response) =>
         LET answer == tui'.response[1]
         IN /\ answer.status \in {200, 404, 400}
            /\ answer.status = 200 <=> answer.sessionID \in tui.sessions
            /\ answer.status = 200 => answer.body = Some(TRUE)
            /\ answer.status = 404 <=>
                   (answer.sessionID \notin tui.sessions /\ Head(answer.sessionID) = "ses")
            /\ answer.status = 400 <=> Head(answer.sessionID) # "ses"]_vars

\* there are sessions, and the route answered 404 for a well-formed id that
\* names none of them
C26_Witness ==
    /\ tui.sessions # {}
    /\ tui.response # None
    /\ tui.response[1].status = 404
    /\ tui.response[1].sessionID \in SessionIDs \ tui.sessions

\* C27: when the child-output handler runs, the chunk is appended to the
\* buffer of the session exactly when no sink was sent it; a subscriber whose
\* socket is open is sent the chunk, one whose socket is not open is taken
\* out of the subscribers and is sent nothing.
C27_BufferedIffUnsent ==
    [][\A id \in Ids :
         (last'.op = "onData" /\ last'.id = id) =>
             LET data == Units(proc[id].out, proc'[id].out)
                 sent == {w \in WS : ws'[w].recv # ws[w].recv}
             IN /\ sess'[id].buffer =
                       IF sent = {} THEN AppendData(sess[id].buffer, data)
                       ELSE sess[id].buffer
                /\ sess'[id].buffer # sess[id].buffer <=> sent = {}
                /\ \A w \in sess[id].subscribers :
                       IF ws[w].ready
                       THEN ws'[w].recv = Concat(ws[w].recv, data)
                              /\ w \in sess'[id].subscribers
                       ELSE w \notin sess'[id].subscribers /\ w \notin sent]_vars

\* a chunk came while the only subscriber's socket was no longer open: the
\* subscriber is gone from the set though its onClose never ran, and the
\* chunk is in the buffer
C27_Witness ==
    /\ last.op = "onData"
    /\ \E w \in WS :
           /\ ws[w].handlers /\ ~ws[w].ready /\ ~ws[w].closed
           /\ ws[w].sess = last.id
           /\ w \notin sess[last.id].subscribers
           /\ ws[w].recv = <<>>
    /\ sess[last.id].buffer # <<>>

\* C28: a connect whose backlog could not be sent leaves the sink out of the
\* subscribers and closed once more, and the buffer of the session as it
\* was before the connect; a connect that goes through on an open socket
\* hands the sink the whole buffer, so the one after a failed connect
\* replays all of it.
C28_FailedReplayRestores ==
    [][\A id \in Ids : \A w \in WS :
         (last'.op = "connect" /\ last'.id = id /\ last'.w = w /\ last'.found) =>
             IF last'.ret = "handlers"
             THEN ws[w].ready => ws'[w].recv = sess[id].buffer
             ELSE /\ w \notin sess'[id].subscribers
                  /\ ~ws'[w].ready
                  /\ ws'[w].closes = ws[w].closes + 1
                  /\ sess[id].buffer # <<>>
                  /\ sess'[id].buffer = sess[id].buffer]_vars

\* the first sink failed on the backlog and was closed, the second connected
\* after it and received the backlog the first one was to get
C28_Witness ==
    /\ last.op = "connect" /\ last.ret = "handlers" /\ last.w = 2
    /\ ws[1].used /\ ~ws[1].handlers /\ ws[1].closes = 1
    /\ ws[1].sess = ws[2].sess
    /\ ws[1].base # <<>>
    /\ ws[2].base = ws[1].base
    /\ ws[2].ready /\ ws[2].recv = ws[1].base

\* C29: when two calls of getLanguage for the same key overlap, the second
\* made before the first has ended, the two construct one handle at most
\* between them and both return the same handle.
C29_OverlappingCallsShareHandle ==
    \A key \in LanguageKeys :
        \A u, v \in LanguageCalls(key) :
            (u < v /\ u \notin task[v].seen /\ task[u].ret # None /\ task[v].ret # None) =>
                /\ task[u].ret = task[v].ret
                /\ Cardinality(HandlesMade(key, {u, v})) <= 1

\* C30: of pty.exited and pty.deleted at most one is published for a
\* session, and no event for the session follows it.
C30_OneFinalEvent ==
    \A i \in DOMAIN bus :
        bus[i].type \in {"pty.exited", "pty.deleted"} =>
            \A j \in DOMAIN bus : j > i => EventId(bus[j]) # bus[i].properties.id

\* C31: once a session has left the table, by exit or by remove, nothing is
\* written to its child: not by write, not by the onMessage of a connect
\* made before.
C31_NoWriteAfterGone ==
    [][\A id \in Created : id \notin table => proc'[id].stdin = proc[id].stdin]_vars

\* C32: a stream of doStream that has an error part, enqueued for a line
\* that is not JSON, has the finish reason error in its finish part.
C32_ParseErrorFinish ==
    \A i \in PartsOf("finish") :
        PartsOf("error") # {} => parts[i].data.finishReason = "error"

\* C35: when the whole text of a prompt-mode reply holds an object, the
\* first object of the text alone decides the closed stream: one tool-call
\* part for each named entry of its tool_calls, in their order, or else one
\* text-delta with its final text.
C35_FirstObjectDecides ==
    (pc = "closed" /\ opts.shouldPromptToolCall /\ opts.body
        /\ FirstBrace(st.fullText, 1) # 0) =>
        LET root == Root(st.fullText[FirstBrace(st.fullText, 1)])
            named == Named(root.tool_calls)
        IN /\ named # <<>> =>
                  /\ Cardinality(ToolParts) = Len(named)
                  /\ \A i \in ToolParts : \E k \in 1..Len(named) : parts[i].data = <<k, named[k]>>
           /\ (named = <<>> /\ root.final # None) =>
                  /\ ToolParts = {}
                  /\ \A i \in PartsOf("text-delta") : parts[i].data = root.final[1]

\* the source a merge stage writes, by the stage the build is at
StageSource ==
    CASE stage = "env" -> "env"
      [] stage = "apikeys" -> "api"
      [] stage = "plugins" -> "custom"
      [] stage = "custom" -> "custom"
      [] stage = "config" -> "config"
      [] OTHER -> Undefined

\* the providers a step of the build put into the registry or changed there
Supplied ==
    {id \in DOMAIN providers' : ~Has(providers, id) \/ providers'[id] # providers[id]}

\* every entry of the map given is an entry of the options of the provider
OptionsHold(provider, given) ==
    \A k \in DOMAIN given : Has(provider.options, k) /\ provider.options[k] = given[k]

\* C36: a provider that a merge stage puts into the registry, or changes
\* there, has the source of that stage after it (env, api, custom for the
\* plugins, custom for the loaders, config), and the fields the stage gives
\* have the stage's values, whatever an earlier stage gave: the key of the
\* auth record, the options of the plugin or the loader, the name, the env
\* and the options of the config.
C36_SourceOfLastStage ==
    [][\A id \in Supplied : StageSource # Undefined =>
          /\ providers'[id].source = StageSource
          /\ stage = "apikeys" => providers'[id].key = Some(inputs.auth[id].key)
          /\ stage = "plugins" =>
                 \E i \in DOMAIN inputs.plugins :
                     OptionsHold(providers'[id], inputs.plugins[i].auth[1].loader[1])
          /\ stage = "custom" => OptionsHold(providers'[id], inputs.loaders[id].options)
          /\ stage = "config" =>
                 LET provider == inputs.config.provider[id]
                 IN /\ provider.name # None => providers'[id].name = provider.name[1]
                    /\ provider.env # None => providers'[id].env = provider.env[1]
                    /\ provider.options # None =>
                           OptionsHold(providers'[id], provider.options[1])]_vars

\* the provider p took the key k1 from the environment, then the key k2
\* from the auth store, then the options of its loader, then the options
\* of the config, and ends with the source config
C36_Witness ==
    /\ stage = "done"
    /\ Has(providers, "p")
    /\ EnvCredential("p")
    /\ AuthCredential("p")
    /\ Has(inputs.loaders, "p")
    /\ Has(inputs.config.provider, "p")
    /\ providers["p"].source = "config"
    /\ providers["p"].key = Some("k2")
    /\ OptionsHold(providers["p"], inputs.loaders["p"].options)
    /\ OptionsHold(providers["p"], "baseURL" :> "u")

\* the value of the first variable a provider of the catalog declares that
\* is set
FirstSet(id) ==
    inputs.env[SelectSeq(database[id].env, LAMBDA item : Has(inputs.env, item))[1]]

\* C37 as stated: after the environment stage a provider that is not
\* disabled and has one of its variables set is in the registry with the
\* source env and, as its key, the value of the first variable that is set.
C37_EnvKey ==
    [][stage = "env" =>
          \A id \in DOMAIN database :
              (~Disabled(inputs.config, id) /\ EnvCredential(id)) =>
                  /\ Has(providers', id)
                  /\ providers'[id].source = "env"
                  /\ providers'[id].key = Some(FirstSet(id))]_vars

\* C37, amended: the key is that value when the provider declares exactly
\* one variable, and is left undefined when it declares several.
C37_EnvKeyOfOnlyVariable ==
    [][stage = "env" =>
          \A id \in DOMAIN database :
              (~Disabled(inputs.config, id) /\ EnvCredential(id)) =>
                  /\ Has(providers', id)
                  /\ providers'[id].source = "env"
                  /\ providers'[id].key = IF Len(database[id].env) = 1
                                          THEN Some(FirstSet(id)) ELSE None]_vars

\* the environment stage has put p, whose one variable is set, into the
\* registry with the source env and the value of the variable as its key
C37_Witness ==
    /\ stage = "apikeys"
    /\ ~Disabled(inputs.config, "p")
    /\ EnvCredential("p")
    /\ Has(providers, "p")
    /\ providers["p"].source = "env"
    /\ providers["p"].key = Some("k1")

\* the provider of the registry that has the id given
Listed(id) == {i \in DOMAIN dflt.list : dflt.list[i].id = id}

\* C38: when the config pins no model and defaultModel returns, the pair it
\* returns is a model of a provider of the registry; and when the config
\* has providers, the provider returned is the first key of cfg.provider
\* that is a provider of the registry (every provider there has models), and
\* the model returned is the first of its models under Provider.sort.
C38_DefaultModel ==
    (dflt # <<>> /\ dflt.ret # None /\ dflt.cfg.model = None
        /\ dflt.ret[1].thrown = None) =>
        LET ret == dflt.ret[1]
            keys == IF dflt.cfg.provider = None THEN <<>> ELSE dflt.cfg.provider[1]
            here == {k \in DOMAIN keys : Listed(keys[k]) # {}}
        IN /\ \E i \in Listed(ret.providerID) : ret.modelID \in dflt.list[i].models
           /\ dflt.cfg.provider # None =>
                  /\ here # {}
                  /\ ret.providerID = keys[CHOOSE k \in here : \A x \in here : k <= x]
                  /\ \A i \in Listed(ret.providerID) :
                         ret.modelID = sort(dflt.list[i].models)[1]

\* the strings the items of an ok response name, empty or not; the ids of
\* the models; the loader has run
ReturnedNames ==
    IF loader.response.rejects \/ ~loader.response.ok \/ loader.response.payload = None
    THEN {}
    ELSE LET list == ListOf(loader.response.payload[1])
         IN {NameOf(list[i])[1] : i \in {j \in DOMAIN list : NameOf(list[j]) # None}}
ModelIds(models) == {models[i].id : i \in DOMAIN models}
LoaderRan == loader # <<>> /\ loader.before # None

\* C39 as stated: after the loader every name the endpoint returned is the
\* id of a model, every model there was before is there unchanged, and
\* there is a model; when no name was returned and there was no model,
\* there is exactly one.
C39_OllamaModels ==
    LoaderRan =>
        /\ ReturnedNames \subseteq ModelIds(loader.models)
        /\ \A i \in DOMAIN loader.before[1] :
               \E j \in DOMAIN loader.models : loader.models[j] = loader.before[1][i]
        /\ loader.models # <<>>
        /\ (ReturnedNames = {} /\ loader.before[1] = <<>>) => Len(loader.models) = 1

\* C39, amended: every name returned that is not empty is the id of a
\* model; every model there was before is there with the same fields,
\* except that its toolcall capability is true when the config of ollama
\* selects prompt mode; there is a model, and exactly one when no
\* non-empty name was returned and there was no model.
C39_OllamaModelsButToolcall ==
    LoaderRan =>
        /\ (ReturnedNames \ {""}) \subseteq ModelIds(loader.models)
        /\ \A i \in DOMAIN loader.before[1] :
               \E j \in DOMAIN loader.models :
                   loader.models[j] =
                       [loader.before[1][i] EXCEPT
                           !.toolcall = IF promptToolCall(loader.providerCfg) THEN TRUE ELSE @]
        /\ loader.models # <<>>
        /\ (ReturnedNames \ {""} = {} /\ loader.before[1] = <<>>) => Len(loader.models) = 1

\* the endpoint returned m2 and m3 to a provider that had m1 without
\* toolcall, in prompt mode: the three are there, m1 now with toolcall
C39_Witness ==
    /\ LoaderRan
    /\ promptToolCall(loader.providerCfg)
    /\ loader.before[1] = <<OModel("m1", "llama", FALSE, 8192)>>
    /\ ReturnedNames = {"m2", "m3"}
    /\ ModelIds(loader.models) = {"m1", "m2", "m3"}
    /\ loader.models[1] = OModel("m1", "llama", TRUE, 8192)

\* the top-level keys and the mcp entries of the file before and after a
\* step, and what the step did to an entry
TopBefore == readJsoncObject(file.content).data
TopAfter == readJsoncObject(file'.content).data
McpBefore == CurrentMcp(TopBefore)
McpAfter == CurrentMcp(TopAfter)
Confirmed(name) ==
    /\ name \in DOMAIN file'.last.entries
    /\ file'.last.overwrite \/ (file'.last.tty /\ file'.last.answers[name] = "yes")
Replaced(name) ==
    Has(McpBefore, name) /\ (~Has(McpAfter, name) \/ McpAfter[name] # McpBefore[name])
Added(name) == ~Has(McpBefore, name) /\ Has(McpAfter, name)
FileStep == file # <<>> /\ file' # file /\ file.content.kind # "invalid"

\* only the entries confirmed are replaced, the entries a call does not
\* name are kept, and a call that adds or replaces nothing does not write
EntriesKept ==
    /\ \A name \in ServerKeys : Replaced(name) => Confirmed(name)
    /\ \A name \in DOMAIN McpBefore \ DOMAIN file'.last.entries :
           Has(McpAfter, name) /\ McpAfter[name] = McpBefore[name]
    /\ ~file'.last.written => file'.content = file.content
    /\ file'.last.written =>
           \E name \in DOMAIN file'.last.entries :
               /\ Added(name) \/ Confirmed(name)
               /\ McpAfter[name] = file'.last.entries[name]

\* C40 as stated: a call of mcp add or mcp import replaces an entry only
\* when it was confirmed or overwrite is set, leaves every other mcp entry
\* and every top-level key but mcp as it was, and leaves the file as it
\* was when it adds and replaces nothing.
C40_UpsertFrame ==
    [][FileStep =>
          /\ EntriesKept
          /\ \A k \in DOMAIN TopBefore \ {"mcp"} :
                 Has(TopAfter, k) /\ TopAfter[k] = TopBefore[k]]_vars

\* C40, amended: the same, except that a call that writes sets $schema to
\* https://opencode.ai/config.json when the file has no $schema or a falsy
\* one; no other top-level key is added.
C40_UpsertFrameButSchema ==
    [][FileStep =>
          /\ EntriesKept
          /\ \A k \in DOMAIN TopBefore \ {"mcp", "$schema"} :
                 Has(TopAfter, k) /\ TopAfter[k] = TopBefore[k]
          /\ file'.last.written =>
                 /\ DOMAIN TopAfter = DOMAIN TopBefore \cup {"mcp", "$schema"}
                 /\ TopAfter["$schema"] =
                        IF Has(TopBefore, "$schema") /\ ~Falsy(TopBefore["$schema"])
                        THEN TopBefore["$schema"] ELSE SchemaURL]_vars

\* an import into a file with $schema, theme and the servers a and b, with
\* a confirmed and b declined, wrote: a is replaced, b, theme and $schema
\* are as they were
C40_Witness ==
    /\ file # <<>>
    /\ file.last.op = "import"
    /\ file.last.written
    /\ ~file.last.overwrite
    /\ file.last.answers = [n \in ServerKeys |-> IF n = "a" THEN "yes" ELSE "no"]
    /\ DOMAIN file.last.entries = {"a", "b"}
    /\ file.content.top =
           ("$schema" :> JString("s")) @@ ("theme" :> JString("t"))
           @@ ("mcp" :> JObject(("a" :> "e2") @@ ("b" :> "e0")))

\* C33 as stated: a connect with a directory that is not empty, on a session
\* that is not pinned, pins it, makes the directory its cwd and writes one cd
\* command of the kind of its shell to the child; on a pinned session a
\* connect writes nothing and leaves the cwd.
C33_PinWritesCd ==
    [][\A id \in Ids :
         (last'.op = "connect" /\ last'.id = id /\ last'.found) =>
             LET dir == IF last'.directory = Undefined THEN Undefined
                        ELSE Trim(last'.directory)
             IN IF sess[id].cwdPinned
                THEN /\ proc'[id].stdin = proc[id].stdin
                     /\ sess'[id].info.cwd = sess[id].info.cwd
                     /\ sess'[id].cwdPinned
                ELSE Truthy(dir) =>
                       /\ sess'[id].cwdPinned
                       /\ sess'[id].info.cwd = dir
                       /\ proc'[id].stdin =
                              Append(proc[id].stdin,
                                     buildCwdCommand(detectShellKind(sess[id].info.command),
                                                     dir))]_vars

\* C33, amended: as stated, but the directory counts without the blanks
\* around it, and the cd command is written when the directory differs from
\* the cwd of the session, and none when it is the same.
C33_PinWritesCdWhenMoved ==
    [][\A id \in Ids :
         (last'.op = "connect" /\ last'.id = id /\ last'.found) =>
             LET dir == IF last'.directory = Undefined THEN Undefined
                        ELSE Trim(last'.directory)
             IN IF sess[id].cwdPinned
                THEN /\ proc'[id].stdin = proc[id].stdin
                     /\ sess'[id].info.cwd = sess[id].info.cwd
                     /\ sess'[id].cwdPinned
                ELSE Truthy(dir) =>
                       /\ sess'[id].cwdPinned
                       /\ sess'[id].info.cwd = dir
                       /\ proc'[id].stdin =
                              IF dir = sess[id].info.cwd THEN proc[id].stdin
                              ELSE Append(proc[id].stdin,
                                          buildCwdCommand(
                                              detectShellKind(sess[id].info.command), dir))]_vars

\* a session made without cwd, its shell pwsh, was connected to with the
\* directory " /b ": it is pinned, its cwd is /b and its child was sent the
\* Set-Location of PowerShell
C33_Witness ==
    /\ last.op = "connect" /\ last.found /\ last.directory = " /b "
    /\ detectShellKind(sess[last.id].info.command) = "powershell"
    /\ sess[last.id].cwdPinned
    /\ sess[last.id].info.cwd = "/b"
    /\ proc[last.id].stdin =
           <<buildCwdCommand(detectShellKind(sess[last.id].info.command), "/b")>>

\* C34: a pty.updated is published only by a step that changed the title or
\* the cwd of the session it is about.
C34_UpdatedOnlyOnChange ==
    [][\A id \in Ids :
         (Len(bus') > Len(bus) /\ bus'[Len(bus')].type = "pty.updated"
            /\ bus'[Len(bus')].properties.info.id = id /\ id \in Created) =>
             \/ sess'[id].info.title # sess[id].info.title
             \/ sess'[id].info.cwd # sess[id].info.cwd]_vars

====
